---------------------------- MODULE Spec2Model ----------------------------
(***************************************************************************)
(* A model of the TaskManager bot (src/task_bot/bot.py and                 *)
(* src/task_bot/google_sheets.py): the worksheet of task records, the      *)
(* due-date helper, the store functions and the command handlers.          *)
(*                                                                         *)
(* Texts are TLA+ strings; a Python value that may be None is a sequence   *)
(* of length 0 (None) or 1 (the value).  The clock is kept at the          *)
(* granularity of one day; midnight may pass between the two readings of   *)
(* the clock of a reminder run.                                            *)
(***************************************************************************)
EXTENDS Integers, Sequences, FiniteSets, TLC

VARIABLES
    store,   \* the worksheet's rows below the header row, in row order
    today,   \* the date datetime.now() falls on
    last,    \* the operation that ran last: its inputs, replies and result
    loop,    \* where the reminder run stands, and the tasks it has read
    pads_year,  \* whether the C library's strftime pads "%Y" to four digits
    gs_worksheet,  \* the worksheet handle on_ready got, or None
    handlers    \* the on_message calls under way, each with its position

vars == <<store, today, last, loop, pads_year, gs_worksheet, handlers>>

---------------------------------------------------------------------------
(* Bounds of the model.                                                    *)

MaxTasks == 2      \* rows the Add handler may append in one behaviour
MaxTicks == 1      \* midnights that may pass in one behaviour
MaxRows == 2       \* rows of a worksheet drawn for a scan

---------------------------------------------------------------------------
(* Python values and texts.                                                *)

None == <<>>
Some(v) == <<v>>
Val(o) == o[1]

\* dict.get(key): the value, or None when the key is absent
Get(args, key) == IF key \in DOMAIN args THEN args[key] ELSE None

\* the truth value of an optional text: None and '' are falsy
Truthy(o) == o # None /\ Val(o) # ""

Ch(s, i) == SubSeq(s, i, i)

UpperLetters == "ABCDEFGHIJKLMNOPQRSTUVWXYZ"
LowerLetters == "abcdefghijklmnopqrstuvwxyz"
DigitChars == "0123456789"

\* the value of each digit character
DigitTable == [c \in { Ch(DigitChars, i) : i \in 1..10 } |->
                 (CHOOSE i \in 1..10 : Ch(DigitChars, i) = c) - 1]

IsDigit(c) == c \in DOMAIN DigitTable

DigitVal(c) == DigitTable[c]

\* str.isdigit(): non-empty and every character a digit
IsDigitStr(s) == Len(s) > 0 /\ \A i \in 1..Len(s) : IsDigit(Ch(s, i))

RECURSIVE NumVal(_)
NumVal(s) ==
    IF Len(s) = 0 THEN 0
    ELSE 10 * NumVal(SubSeq(s, 1, Len(s) - 1)) + DigitVal(Ch(s, Len(s)))

RECURSIVE NatToStr(_)
NatToStr(n) ==
    IF n < 10 THEN Ch(DigitChars, n + 1)
    ELSE NatToStr(n \div 10) \o Ch(DigitChars, (n % 10) + 1)

\* str(n) of an int
IntToStr(n) == IF n < 0 THEN "-" \o NatToStr(0 - n) ELSE NatToStr(n)

\* int(x) of a text: an optional sign and decimal digits; anything else
\* raises ValueError (ok = FALSE)
ParseInt(s) ==
    LET body == IF Len(s) > 0 /\ Ch(s, 1) \in {"-", "+"}
                THEN SubSeq(s, 2, Len(s)) ELSE s
        neg == Len(s) > 0 /\ Ch(s, 1) = "-"
    IN  IF IsDigitStr(body)
        THEN [ok |-> TRUE, val |-> IF neg THEN 0 - NumVal(body) ELSE NumVal(body)]
        ELSE [ok |-> FALSE, val |-> 0]

\* the lower-case letter of each upper-case letter
LowerTable == [c \in { Ch(UpperLetters, i) : i \in 1..26 } |->
                 Ch(LowerLetters, CHOOSE i \in 1..26 : Ch(UpperLetters, i) = c)]

LowerChar(c) == IF c \in DOMAIN LowerTable THEN LowerTable[c] ELSE c

\* str.lower()
RECURSIVE Lower(_)
Lower(s) ==
    IF Len(s) = 0 THEN ""
    ELSE LowerChar(Ch(s, 1)) \o Lower(SubSeq(s, 2, Len(s)))

\* sub in s
Contains(s, sub) ==
    \E i \in 1..(Len(s) - Len(sub) + 1) : SubSeq(s, i, i + Len(sub) - 1) = sub

\* s.split(" ")[0]: the text before the first space
SplitFirst(s) ==
    IF \E i \in 1..Len(s) : Ch(s, i) = " "
    THEN SubSeq(s, 1, (CHOOSE i \in 1..Len(s) :
                          /\ Ch(s, i) = " "
                          /\ \A k \in 1..(i - 1) : Ch(s, k) # " ") - 1)
    ELSE s

---------------------------------------------------------------------------
(* Dates: datetime.date, timedelta(days = n), strftime and strptime.       *)

IsLeap(y) == (y % 4 = 0 /\ y % 100 # 0) \/ y % 400 = 0

DaysInMonth(y, m) ==
    IF m \in {1, 3, 5, 7, 8, 10, 12} THEN 31
    ELSE IF m \in {4, 6, 9, 11} THEN 30
    ELSE IF IsLeap(y) THEN 29 ELSE 28

MkDate(y, m, d) == [y |-> y, m |-> m, d |-> d]

ValidDate(y, m, d) ==
    y \in 1..9999 /\ m \in 1..12 /\ d >= 1 /\ d <= DaysInMonth(y, m)

NextDay(dt) ==
    IF dt.d < DaysInMonth(dt.y, dt.m) THEN MkDate(dt.y, dt.m, dt.d + 1)
    ELSE IF dt.m < 12 THEN MkDate(dt.y, dt.m + 1, 1)
    ELSE MkDate(dt.y + 1, 1, 1)

\* dt + timedelta(days = n), n >= 0
RECURSIVE AddDays(_, _)
AddDays(dt, n) == IF n = 0 THEN dt ELSE AddDays(NextDay(dt), n - 1)

RECURSIVE DaysBeforeMonth(_, _)
DaysBeforeMonth(y, m) ==
    IF m = 1 THEN 0 ELSE DaysBeforeMonth(y, m - 1) + DaysInMonth(y, m - 1)

\* date.toordinal(): 0001-01-01 is day 1; dates compare as their ordinals
ToOrdinal(dt) ==
    LET p == dt.y - 1
    IN  365 * p + (p \div 4) - (p \div 100) + (p \div 400)
        + DaysBeforeMonth(dt.y, dt.m) + dt.d

\* date.weekday(): Monday is 0
Weekday(dt) == (ToOrdinal(dt) + 6) % 7

Pad2(n) == Ch(DigitChars, (n \div 10) + 1) \o Ch(DigitChars, (n % 10) + 1)
Pad4(n) == Pad2(n \div 100) \o Pad2(n % 100)

\* strftime("%Y"): the year in four digits where the C library pads it, and
\* in as many digits as it has where the C library does not
YearText(y) == IF pads_year THEN Pad4(y) ELSE NatToStr(y)

\* strftime("%Y-%m-%d")
FormatDate(dt) == YearText(dt.y) \o "-" \o Pad2(dt.m) \o "-" \o Pad2(dt.d)

\* a field of one or two digits whose value lies in lo..hi gives that value;
\* any other text gives -1
FieldVal(t, lo, hi) ==
    IF Len(t) \in 1..2 /\ IsDigitStr(t) /\ NumVal(t) \in lo..hi THEN NumVal(t) ELSE -1

\* strptime's field patterns; each gives the field's value, or -1
\* %m: 1[0-2]|0[1-9]|[1-9]
MonthTok(t) == FieldVal(t, 1, 12)

\* %d: 3[01]|[12]\d|0[1-9]|[1-9]| [1-9]
DayTok(t) ==
    IF Len(t) = 2 /\ Ch(t, 1) = " " THEN FieldVal(Ch(t, 2), 1, 9)
    ELSE FieldVal(t, 1, 31)

\* %H: 2[0-3]|[0-1]\d|\d
HourTok(t) == FieldVal(t, 0, 23)

\* %M: [0-5]\d|\d
MinuteTok(t) == FieldVal(t, 0, 59)

\* \s of the pattern a blank of the format is compiled to
IsSpace(c) == c \in {" ", "\t"}

\* the result of strptime: None is ValueError
ValueError == None

AnyOf(S) == IF S = {} THEN None ELSE Some(CHOOSE x \in S : TRUE)

MkDateTime(y, m, d, H, M) == [date |-> MkDate(y, m, d), H |-> H, M |-> M]

\* the splits of s as YYYY "-" month "-" day: the index of the second dash
YmdSplits(s) ==
    { j \in 7..8 :
        /\ Len(s) >= j + 1
        /\ IsDigitStr(SubSeq(s, 1, 4))
        /\ Ch(s, 5) = "-"
        /\ Ch(s, j) = "-"
        /\ MonthTok(SubSeq(s, 6, j - 1)) > 0 }

\* the fields of s split at the second dash j with the day ending at k
YmdOf(s, j, k, H, M) ==
    MkDateTime(NumVal(SubSeq(s, 1, 4)), MonthTok(SubSeq(s, 6, j - 1)),
               DayTok(SubSeq(s, j + 1, k)), H, M)

\* datetime(...) raises ValueError for a day the month does not have
ValidDateTime(p) == ValidDate(p.date.y, p.date.m, p.date.d)

\* datetime.strptime(s, "%Y-%m-%d")
strptime_ymd(s) ==
    AnyOf({ p \in { YmdOf(s, j, Len(s), 0, 0) :
                      j \in { x \in YmdSplits(s) :
                                DayTok(SubSeq(s, x + 1, Len(s))) > 0 } } :
              ValidDateTime(p) })

\* the end of the run of blanks that starts after index k (k when none)
RECURSIVE BlankRunEnd(_, _)
BlankRunEnd(s, k) ==
    IF k < Len(s) /\ IsSpace(Ch(s, k + 1)) THEN BlankRunEnd(s, k + 1) ELSE k

\* the colons c that split the text after the blanks ending at w into
\* hour ":" minute
ColonSplits(s, w) ==
    { c \in (w + 2)..(w + 3) :
        /\ c < Len(s)
        /\ Ch(s, c) = ":"
        /\ HourTok(SubSeq(s, w + 1, c - 1)) >= 0
        /\ MinuteTok(SubSeq(s, c + 1, Len(s))) >= 0 }

\* the parses of s with the second dash at j, the day ending at k and the
\* blanks ending at w
YmdhmAt(s, j, k, w) ==
    { YmdOf(s, j, k, HourTok(SubSeq(s, w + 1, c - 1)),
            MinuteTok(SubSeq(s, c + 1, Len(s)))) : c \in ColonSplits(s, w) }

\* datetime.strptime(s, "%Y-%m-%d %H:%M"): the day, a run of blanks, the
\* hour, ":", the minute
strptime_ymdhm(s) ==
    AnyOf({ p \in UNION { UNION { YmdhmAt(s, j, k, BlankRunEnd(s, k)) :
                                    k \in { x \in (j + 1)..(j + 2) :
                                              /\ x < Len(s)
                                              /\ BlankRunEnd(s, x) > x
                                              /\ DayTok(SubSeq(s, j + 1, x)) > 0 } } :
                          j \in YmdSplits(s) } :
              ValidDateTime(p) })

\* strftime("%Y-%m-%d %H:%M")
FormatDateTime(p) ==
    FormatDate(p.date) \o " " \o Pad2(p.H) \o ":" \o Pad2(p.M)

\* the default time of day of a due date given without one
time_part == "23:59"

OrElse(a, b) == IF a # None THEN a ELSE b

\* lines 245-247: the text as "%Y-%m-%d %H:%M", formatted again
TryYmdhm(parsed) == IF parsed = ValueError THEN None ELSE Some(FormatDateTime(Val(parsed)))

\* a faulty variant of TryYmd: the date is given the start of the day
TryYmdMidnight(parsed) ==
    IF parsed = ValueError THEN None ELSE Some(FormatDate(Val(parsed).date) \o " 00:00")

\* lines 250-252: the text as "%Y-%m-%d", formatted with the end of the day
TryYmd(parsed) ==
    IF parsed = ValueError THEN None ELSE Some(FormatDate(Val(parsed).date) \o " 23:59")

\* lines 237-272 for a non-empty text s and its lower-case form
ParseDueText(s, due_date_str_lower, now) ==
    IF Contains(due_date_str_lower, "today")
    THEN Some(FormatDate(now) \o " " \o time_part)
    ELSE IF Contains(due_date_str_lower, "tomorrow")
    THEN Some(FormatDate(AddDays(now, 1)) \o " " \o time_part)
    ELSE OrElse(TryYmdhm(strptime_ymdhm(s)), TryYmd(strptime_ymd(s)))

\* parse_relative_due_date(due_date_str) with datetime.now() on the day now
parse_relative_due_date(due_date_str, now) ==
    IF ~Truthy(due_date_str) THEN None
    ELSE ParseDueText(Val(due_date_str), Lower(Val(due_date_str)), now)

---------------------------------------------------------------------------
(* The worksheet (google_sheets.py).  A row is a record of the six columns; *)
(* the header row is implicit.                                             *)

COL_TASK_ID == "task_id"
STATUS_PENDING == "pending"
STATUS_COMPLETED == "completed"

\* the time of day of datetime.now(), which the model does not follow
ClockTime == "09:00:00"

SetMax(S) == CHOOSE x \in S : \A y \in S : y <= x
SetMin(S) == CHOOSE x \in S : \A y \in S : x <= y

\* worksheet.col_values(1): the header cell, then each row's task_id as text
col_values(worksheet) ==
    <<COL_TASK_ID>> \o [i \in 1..Len(worksheet) |-> IntToStr(worksheet[i].task_id)]

\* a faulty variant of numeric_ids: the last cell of the column is left out
numeric_ids_but_last(task_ids) ==
    { NumVal(task_ids[i]) :
        i \in { k \in 2..(Len(task_ids) - 1) : IsDigitStr(task_ids[k]) } }

\* line 63: the cells below the header that are all digits, as numbers
numeric_ids(task_ids) ==
    { NumVal(task_ids[i]) : i \in { k \in 2..Len(task_ids) : IsDigitStr(task_ids[k]) } }

\* a faulty variant of NextIdOf: the largest id is given again
NextIdOfNoIncrement(task_ids) ==
    IF Len(task_ids) <= 1 THEN 1
    ELSE IF numeric_ids(task_ids) = {} THEN 1
    ELSE SetMax(numeric_ids(task_ids))

\* lines 59-66 for the first column task_ids
NextIdOf(task_ids) ==
    IF Len(task_ids) <= 1 THEN 1
    ELSE IF numeric_ids(task_ids) = {} THEN 1
    ELSE SetMax(numeric_ids(task_ids)) + 1

get_next_task_id(worksheet) == NextIdOf(col_values(worksheet))

\* lines 78-88: the row add_task builds
NewRow(task_id, title, assignee_id, due_date, now) ==
    [task_id |-> task_id,
     title |-> title,
     status |-> STATUS_PENDING,
     assignee_id |-> IF Truthy(assignee_id) THEN Val(assignee_id) ELSE "",
     due_date |-> IF Truthy(due_date) THEN Val(due_date) ELSE "",
     created_at |-> FormatDate(now) \o " " \o ClockTime]

\* lines 89-91: the worksheet with the row appended, and the id returned
AppendRow(worksheet, row) ==
    [store |-> Append(worksheet, row), task_id |-> row.task_id]

add_task(worksheet, title, assignee_id, due_date, now) ==
    AppendRow(worksheet,
              NewRow(get_next_task_id(worksheet), title, assignee_id, due_date, now))

\* a faulty variant of InRange: the seventh day after today is in the range
InRangeInclusive(task_due_date_str, task_due_date, due_date_range, now, day) ==
    IF due_date_range = "today" THEN task_due_date = day
    ELSE IF due_date_range = "this_week"
    THEN /\ day - Weekday(now) <= task_due_date
         /\ task_due_date <= (day - Weekday(now)) + 6
    ELSE IF due_date_range = "next_seven_days"
    THEN day <= task_due_date /\ task_due_date <= ToOrdinal(AddDays(now, 7))
    ELSE task_due_date_str = due_date_range

\* lines 143-158: the test of one due date against due_date_range; the
\* dates are ordinals, task_due_date_str is the text before the first blank
InRange(task_due_date_str, task_due_date, due_date_range, now, day) ==
    IF due_date_range = "today" THEN task_due_date = day
    ELSE IF due_date_range = "this_week"
    THEN /\ day - Weekday(now) <= task_due_date
         /\ task_due_date <= (day - Weekday(now)) + 6
    ELSE IF due_date_range = "next_seven_days"
    THEN day <= task_due_date /\ task_due_date < ToOrdinal(AddDays(now, 7))
    ELSE task_due_date_str = due_date_range

\* lines 138-162 for the date text of one task: a text strptime refuses is
\* skipped
ParsedInRange(task_due_date_str, parsed, due_date_range, now) ==
    /\ parsed # ValueError
    /\ InRange(task_due_date_str, ToOrdinal(Val(parsed).date), due_date_range,
               now, ToOrdinal(now))

\* lines 135-162 for one task
DueDateInRange(task, due_date_range, now) ==
    /\ task.due_date # ""
    /\ ParsedInRange(SplitFirst(task.due_date),
                     strptime_ymd(SplitFirst(task.due_date)), due_date_range, now)

\* a faulty variant of FilterStatus: rows of every status are kept
FilterStatusOff(tasks, status) == tasks

\* lines 124-125
FilterStatus(tasks, status) ==
    IF Truthy(status)
    THEN SelectSeq(tasks, LAMBDA task : task.status = Val(status))
    ELSE tasks

\* lines 128-129
FilterAssignee(tasks, assignee_id) ==
    IF Truthy(assignee_id)
    THEN SelectSeq(tasks, LAMBDA task : task.assignee_id = Val(assignee_id))
    ELSE tasks

\* lines 132-163
FilterDueDate(tasks, due_date_range, now) ==
    IF Truthy(due_date_range)
    THEN SelectSeq(tasks, LAMBDA task : DueDateInRange(task, Val(due_date_range), now))
    ELSE tasks

\* read_tasks: the rows that pass the status, assignee and date filters, in
\* row order; a filter that is None or '' is not applied
read_tasks(worksheet, assignee_id, due_date_range, status, now) ==
    FilterDueDate(FilterAssignee(FilterStatus(worksheet, status), assignee_id),
                  due_date_range, now)

\* line 179: the rows whose first cell is all digits and reads task_id
RowsOfId(task_ids, task_id) ==
    { i \in 1..(Len(task_ids) - 1) :
        IsDigitStr(task_ids[i + 1]) /\ NumVal(task_ids[i + 1]) = task_id }

\* a faulty variant of updated_row: the rewritten row is pending again
updated_row_reopened(current_row_values, new_title, new_assignee_id, new_due_date) ==
    [current_row_values EXCEPT
       !.title = IF new_title # None THEN Val(new_title) ELSE @,
       !.assignee_id = IF new_assignee_id # None THEN Val(new_assignee_id) ELSE @,
       !.due_date = IF new_due_date # None THEN Val(new_due_date) ELSE @,
       !.status = STATUS_PENDING]

\* lines 193-200: a parameter that is None leaves its column as it is
updated_row(current_row_values, new_title, new_assignee_id, new_due_date) ==
    [current_row_values EXCEPT
       !.title = IF new_title # None THEN Val(new_title) ELSE @,
       !.assignee_id = IF new_assignee_id # None THEN Val(new_assignee_id) ELSE @,
       !.due_date = IF new_due_date # None THEN Val(new_due_date) ELSE @]

\* lines 182-216: task_id_to_row keeps the last row of an id
UpdateRows(worksheet, rows, new_title, new_assignee_id, new_due_date) ==
    IF rows = {} THEN [store |-> worksheet, success |-> FALSE]
    ELSE [store |-> [worksheet EXCEPT
                       ![SetMax(rows)] =
                           updated_row(@, new_title, new_assignee_id, new_due_date)],
          success |-> TRUE]

update_task(worksheet, task_id, new_title, new_assignee_id, new_due_date) ==
    UpdateRows(worksheet, RowsOfId(col_values(worksheet), task_id),
               new_title, new_assignee_id, new_due_date)

\* line 229: worksheet.find(str(task_id), in_column=1), the cells of the
\* first column with that text (the header is cell 1)
FindCells(task_ids, query) == { i \in 1..Len(task_ids) : task_ids[i] = query }

\* a faulty variant of CompleteCell: a row that is completed already is not
\* written and the call reports no success
CompleteCellPendingOnly(worksheet, cells) ==
    IF cells = {} THEN [store |-> worksheet, success |-> FALSE]
    ELSE IF worksheet[SetMin(cells) - 1].status = STATUS_COMPLETED
    THEN [store |-> worksheet, success |-> FALSE]
    ELSE [store |-> [worksheet EXCEPT ![SetMin(cells) - 1].status = STATUS_COMPLETED],
          success |-> TRUE]

\* lines 230-246: the first cell found has its row's status set
CompleteCell(worksheet, cells) ==
    IF cells = {} THEN [store |-> worksheet, success |-> FALSE]
    ELSE [store |-> [worksheet EXCEPT ![SetMin(cells) - 1].status = STATUS_COMPLETED],
          success |-> TRUE]

mark_task_complete(worksheet, task_id) ==
    CompleteCell(worksheet, FindCells(col_values(worksheet), IntToStr(task_id)))

---------------------------------------------------------------------------
(* The command handlers (bot.py).  A message carries the identities it     *)
(* mentions; fail says which store call of the run raises ("none", "read", *)
(* "write").  A handler gives the worksheet it leaves, the replies it      *)
(* sends in order, and how its mutating store call ended ("none" when it   *)
(* made none, "true"/"false" for its return value, "raised").              *)

Reply(kind, ids) == [kind |-> kind, ids |-> ids]

Outcome(worksheet, replies, call) ==
    [store |-> worksheet, replies |-> replies, call |-> call]

\* a faulty variant of ParsedOrRaw: the end of the day is put after every
\* text without a colon, whatever its length
ParsedOrRawAnyLength(due_date_str, parsed_due_date) ==
    IF Truthy(parsed_due_date) THEN parsed_due_date
    ELSE IF ~Contains(Val(due_date_str), ":")
    THEN Some(Val(due_date_str) \o " 23:59")
    ELSE due_date_str

\* lines 297-306 and 473-478: what is stored for a due text, given what the
\* helper made of it
ParsedOrRaw(due_date_str, parsed_due_date) ==
    IF Truthy(parsed_due_date) THEN parsed_due_date
    ELSE IF ~Contains(Val(due_date_str), ":") /\ Len(Val(due_date_str)) = 10
    THEN Some(Val(due_date_str) \o " 23:59")
    ELSE due_date_str

\* a faulty variant of DueDateOrRaw: the text is stored as it was given
DueDateAsGiven(due_date_str, now) ==
    IF ~Truthy(due_date_str) THEN None ELSE due_date_str

\* lines 292-306 and 470-478
DueDateOrRaw(due_date_str, now) ==
    IF ~Truthy(due_date_str) THEN None
    ELSE ParsedOrRaw(due_date_str, parse_relative_due_date(due_date_str, now))

MentionToken(user) == "<@" \o IntToStr(user.id) \o ">"
NickMentionToken(user) == "<@!" \o IntToStr(user.id) \o ">"

\* the id of the first of the mentioned users hits, or the text itself
FirstHit(mentions, hits, text) ==
    IF hits # {} THEN Some(IntToStr(mentions[SetMin(hits)].id)) ELSE text

\* lines 309-326 of handle_add_task
AddAssignee(assignee_str, mentions) ==
    IF ~Truthy(assignee_str) THEN None
    ELSE FirstHit(mentions,
                  { i \in 1..Len(mentions) :
                      \/ Val(assignee_str) = mentions[i].mention
                      \/ Val(assignee_str) = mentions[i].name
                      \/ Val(assignee_str) = MentionToken(mentions[i])
                      \/ Val(assignee_str) = NickMentionToken(mentions[i]) },
                  assignee_str)

\* a faulty variant of AddReply: add_task is called again after it raised,
\* and the second call answers
AddReplyRetried(worksheet, added, fail) ==
    Outcome(added.store, <<Reply("added", <<added.task_id>>)>>, "true")

\* lines 331-338
AddReply(worksheet, added, fail) ==
    IF fail = "write"
    THEN Outcome(worksheet, <<Reply("add_error", <<>>)>>, "raised")
    ELSE Outcome(added.store, <<Reply("added", <<added.task_id>>)>>, "true")

handle_add_task(worksheet, now, message, args, fail) ==
    IF ~Truthy(Get(args, "title"))
    THEN Outcome(worksheet, <<Reply("need_title", <<>>)>>, "none")
    ELSE AddReply(worksheet,
                  add_task(worksheet, Val(Get(args, "title")),
                           AddAssignee(Get(args, "assignee"), message.mentions),
                           DueDateOrRaw(Get(args, "due_date"), now), now),
                  fail)

\* lines 481-492 of handle_update_task
UpdateAssignee(args, mentions) ==
    IF "new_assignee" \notin DOMAIN args THEN None
    ELSE IF ~Truthy(Get(args, "new_assignee")) THEN Some("")
    ELSE FirstHit(mentions,
                  { i \in 1..Len(mentions) :
                      \/ Val(Get(args, "new_assignee")) = mentions[i].mention
                      \/ Val(Get(args, "new_assignee")) = mentions[i].name },
                  Get(args, "new_assignee"))

\* lines 497-503: the keyword arguments of update_task
UpdateKeys(args) ==
    { k \in {"new_title", "new_due_date", "new_assignee_id"} :
        \/ k = "new_title" /\ "new_title" \in DOMAIN args
                           /\ Get(args, "new_title") # None
        \/ k = "new_due_date" /\ "new_due_date" \in DOMAIN args
                              /\ Get(args, "new_due_date") # None
        \/ k = "new_assignee_id" /\ "new_assignee" \in DOMAIN args }

\* a faulty variant of update_kwargs: a field that was not given is passed
\* as the empty text
update_kwargs_all(args, parsed_new_due_date, new_assignee_id) ==
    [k \in {"new_title", "new_due_date", "new_assignee_id"} |->
        IF k = "new_title"
        THEN (IF Get(args, "new_title") # None THEN Get(args, "new_title") ELSE Some(""))
        ELSE IF k = "new_due_date"
        THEN (IF parsed_new_due_date # None THEN parsed_new_due_date ELSE Some(""))
        ELSE (IF new_assignee_id # None THEN new_assignee_id ELSE Some(""))]

update_kwargs(args, parsed_new_due_date, new_assignee_id) ==
    [k \in UpdateKeys(args) |->
        IF k = "new_title" THEN Get(args, "new_title")
        ELSE IF k = "new_due_date" THEN parsed_new_due_date
        ELSE new_assignee_id]

\* lines 512-515
UpdateReply(task_id, updated) ==
    IF updated.success
    THEN Outcome(updated.store, <<Reply("updated", <<task_id>>)>>, "true")
    ELSE Outcome(updated.store, <<Reply("update_failed", <<task_id>>)>>, "false")

\* lines 506-518
UpdateWith(worksheet, task_id, kwargs, fail) ==
    IF DOMAIN kwargs = {}
    THEN Outcome(worksheet, <<Reply("no_valid_fields", <<>>)>>, "none")
    ELSE IF fail = "write"
    THEN Outcome(worksheet, <<Reply("update_error", <<>>)>>, "raised")
    ELSE UpdateReply(task_id,
                     update_task(worksheet, task_id, Get(kwargs, "new_title"),
                                 Get(kwargs, "new_assignee_id"),
                                 Get(kwargs, "new_due_date")))

handle_update_task(worksheet, now, message, args, fail) ==
    IF Get(args, "target_task_id") = None
    THEN Outcome(worksheet, <<Reply("need_id", <<>>)>>, "none")
    ELSE IF ~ParseInt(Val(Get(args, "target_task_id"))).ok
    THEN Outcome(worksheet, <<Reply("bad_id", <<>>)>>, "none")
    ELSE IF ~(\/ Truthy(Get(args, "new_title"))
              \/ Truthy(Get(args, "new_due_date"))
              \/ Truthy(Get(args, "new_assignee")))
    THEN Outcome(worksheet, <<Reply("need_fields", <<>>)>>, "none")
    ELSE UpdateWith(worksheet, ParseInt(Val(Get(args, "target_task_id"))).val,
                    update_kwargs(args, DueDateOrRaw(Get(args, "new_due_date"), now),
                                  UpdateAssignee(args, message.mentions)),
                    fail)

\* a faulty variant of matched_tasks: the rows are read whatever their status
matched_tasks_of_any_status(worksheet, target_title_str, now) ==
    SelectSeq(read_tasks(worksheet, None, None, None, now),
              LAMBDA task : Lower(task.title) = Lower(target_title_str))

\* lines 548-554 of handle_complete_task: the pending rows whose title is
\* the target title, letter case aside
matched_tasks(worksheet, target_title_str, now) ==
    SelectSeq(read_tasks(worksheet, None, None, Some(STATUS_PENDING), now),
              LAMBDA task : Lower(task.title) = Lower(target_title_str))

\* a faulty variant of CompleteReply: the value returned is not looked at
CompleteReplyUnchecked(task_id_to_complete, sent, marked) ==
    Outcome(marked.store,
            sent \o <<Reply("completed", <<task_id_to_complete>>)>>, "true")

\* lines 578-581
CompleteReply(task_id_to_complete, sent, marked) ==
    IF marked.success
    THEN Outcome(marked.store,
                 sent \o <<Reply("completed", <<task_id_to_complete>>)>>, "true")
    ELSE Outcome(marked.store,
                 sent \o <<Reply("complete_failed", <<task_id_to_complete>>)>>, "false")

\* lines 575-584, after the replies sent
CompleteById(worksheet, task_id_to_complete, sent, fail) ==
    IF fail = "write"
    THEN Outcome(worksheet, sent \o <<Reply("complete_error", <<>>)>>, "raised")
    ELSE CompleteReply(task_id_to_complete, sent,
                       mark_task_complete(worksheet, task_id_to_complete))

ids_found(matched) == [i \in 1..Len(matched) |-> matched[i].task_id]

\* a faulty variant of CompleteByTitle: of several matches the first is taken
CompleteByTitleFirst(worksheet, matched, fail) ==
    IF fail = "read"
    THEN Outcome(worksheet, <<Reply("lookup_error", <<>>)>>, "none")
    ELSE IF Len(matched) >= 1
    THEN CompleteById(worksheet, matched[1].task_id,
                      <<Reply("found_by_title", ids_found(matched))>>, fail)
    ELSE Outcome(worksheet, <<Reply("title_not_found", <<>>)>>, "none")

\* lines 544-569
CompleteByTitle(worksheet, matched, fail) ==
    IF fail = "read"
    THEN Outcome(worksheet, <<Reply("lookup_error", <<>>)>>, "none")
    ELSE IF Len(matched) = 1
    THEN CompleteById(worksheet, matched[1].task_id,
                      <<Reply("found_by_title", ids_found(matched))>>, fail)
    ELSE IF Len(matched) > 1
    THEN Outcome(worksheet, <<Reply("ambiguous", ids_found(matched))>>, "none")
    ELSE Outcome(worksheet, <<Reply("title_not_found", <<>>)>>, "none")

\* a faulty variant of handle_complete_task: a title that is given is looked
\* up before the id is considered
handle_complete_task_title_first(worksheet, now, message, args, fail) ==
    IF Truthy(Get(args, "target_task_title"))
    THEN CompleteByTitle(worksheet,
                         matched_tasks(worksheet, Val(Get(args, "target_task_title")),
                                       now),
                         fail)
    ELSE IF Get(args, "target_task_id") = None
    THEN Outcome(worksheet, <<Reply("need_id_or_title", <<>>)>>, "none")
    ELSE IF ~ParseInt(Val(Get(args, "target_task_id"))).ok
    THEN Outcome(worksheet, <<Reply("bad_id", <<>>)>>, "none")
    ELSE CompleteById(worksheet, ParseInt(Val(Get(args, "target_task_id"))).val,
                      <<>>, fail)

\* a faulty variant of handle_complete_task: after an id that is no number the
\* title is looked up
handle_complete_task_falling_through(worksheet, now, message, args, fail) ==
    IF Get(args, "target_task_id") # None
          /\ ParseInt(Val(Get(args, "target_task_id"))).ok
    THEN CompleteById(worksheet, ParseInt(Val(Get(args, "target_task_id"))).val,
                      <<>>, fail)
    ELSE IF Truthy(Get(args, "target_task_title"))
    THEN CompleteByTitle(worksheet,
                         matched_tasks(worksheet, Val(Get(args, "target_task_title")),
                                       now),
                         fail)
    ELSE IF Get(args, "target_task_id") # None
    THEN Outcome(worksheet, <<Reply("bad_id", <<>>)>>, "none")
    ELSE Outcome(worksheet, <<Reply("need_id_or_title", <<>>)>>, "none")

\* lines 527-584
handle_complete_task(worksheet, now, message, args, fail) ==
    IF Get(args, "target_task_id") # None
    THEN IF ~ParseInt(Val(Get(args, "target_task_id"))).ok
         THEN Outcome(worksheet, <<Reply("bad_id", <<>>)>>, "none")
         ELSE CompleteById(worksheet, ParseInt(Val(Get(args, "target_task_id"))).val,
                           <<>>, fail)
    ELSE IF Truthy(Get(args, "target_task_title"))
    THEN CompleteByTitle(worksheet,
                         matched_tasks(worksheet, Val(Get(args, "target_task_title")),
                                       now),
                         fail)
    ELSE Outcome(worksheet, <<Reply("need_id_or_title", <<>>)>>, "none")

---------------------------------------------------------------------------
(* Listing and the reminder run (bot.py).  The text of the messages is not *)
(* followed, a reply is the kind of message and the ids it names.          *)

\* lines 350-379 of handle_list_tasks
ListAssignee(assignee_filter_str, message) ==
    IF ~Truthy(assignee_filter_str) THEN None
    ELSE IF Lower(Val(assignee_filter_str)) \in {"me", "my", "my tasks"}
    THEN Some(IntToStr(message.author))
    ELSE FirstHit(message.mentions,
                  { i \in 1..Len(message.mentions) :
                      \/ Val(assignee_filter_str) = message.mentions[i].mention
                      \/ Val(assignee_filter_str) = message.mentions[i].name
                      \/ Val(assignee_filter_str) = MentionToken(message.mentions[i])
                      \/ Val(assignee_filter_str) = NickMentionToken(message.mentions[i]) },
                  assignee_filter_str)

\* lines 384-387: the rows the listing reads
listed_tasks(worksheet, now, message, args) ==
    read_tasks(worksheet, ListAssignee(Get(args, "assignee"), message),
               Get(args, "due_date_range"), Some(STATUS_PENDING), now)

\* lines 389-432
ListReply(worksheet, tasks) ==
    IF tasks = <<>>
    THEN Outcome(worksheet, <<Reply("none_found", <<>>)>>, "none")
    ELSE Outcome(worksheet, <<Reply("listing", ids_found(tasks))>>, "none")

handle_list_tasks(worksheet, now, message, args, fail) ==
    IF fail = "read"
    THEN Outcome(worksheet, <<Reply("list_error", <<>>)>>, "none")
    ELSE ListReply(worksheet, listed_tasks(worksheet, now, message, args))

\* lines 77-79 of reminder_loop
reminder_read(worksheet, now) ==
    read_tasks(worksheet, None, Some("next_seven_days"), Some(STATUS_PENDING), now)

\* a faulty variant of GroupOfDate: the test of the coming days comes before
\* the test of tomorrow
GroupOfDateUpcomingFirst(task_due_date, day) ==
    IF task_due_date = day THEN "due_today"
    ELSE IF day < task_due_date /\ task_due_date < day + 7 THEN "upcoming"
    ELSE IF task_due_date = day + 1 THEN "due_tomorrow"
    ELSE "none"

\* lines 97-102: the list a due date goes to; the dates are ordinals
GroupOfDate(task_due_date, day) ==
    IF task_due_date = day THEN "due_today"
    ELSE IF task_due_date = day + 1 THEN "due_tomorrow"
    ELSE IF day < task_due_date /\ task_due_date < day + 7 THEN "upcoming"
    ELSE "none"

\* lines 95-105: a text strptime refuses is skipped
GroupOfParsed(parsed, now) ==
    IF parsed = ValueError THEN "none"
    ELSE GroupOfDate(ToOrdinal(Val(parsed).date), ToOrdinal(now))

\* lines 93-105 for one task
GroupOf(task, now) ==
    IF task.due_date = "" THEN "none"
    ELSE GroupOfParsed(strptime_ymd(SplitFirst(task.due_date)), now)

\* lines 89-105: one of the three lists
Grouped(tasks, group, now) ==
    SelectSeq(tasks, LAMBDA task : GroupOf(task, now) = group)

\* lines 131-155: one message when a list has a task, none otherwise
ReminderReplies(due_today_tasks, due_tomorrow_tasks, upcoming_tasks) ==
    IF due_today_tasks \o due_tomorrow_tasks \o upcoming_tasks = <<>> THEN <<>>
    ELSE <<Reply("reminder",
                 ids_found(due_today_tasks \o due_tomorrow_tasks \o upcoming_tasks))>>

Grouping(tasks, due_today_tasks, due_tomorrow_tasks, upcoming_tasks) ==
    [op |-> "reminder", fail |-> "none", tasks |-> tasks,
     due_today_tasks |-> due_today_tasks,
     due_tomorrow_tasks |-> due_tomorrow_tasks,
     upcoming_tasks |-> upcoming_tasks,
     replies |-> ReminderReplies(due_today_tasks, due_tomorrow_tasks, upcoming_tasks)]

\* lines 85-155 for the tasks read
group_tasks(tasks, now) ==
    Grouping(tasks, Grouped(tasks, "due_today", now),
             Grouped(tasks, "due_tomorrow", now), Grouped(tasks, "upcoming", now))

---------------------------------------------------------------------------
(* The clock and the position of the reminder run.                         *)

Idle == [pc |-> "idle"]

\* the handle get_sheet returns
Worksheet == Some("Tasks")

StartDays == { MkDate(2024, 2, 28), MkDate(2024, 12, 30) }

\* midnight passes
Tick ==
    /\ \E s \in StartDays : \E n \in 0..(MaxTicks - 1) : AddDays(s, n) = today
    /\ today' = NextDay(today)
    /\ last' = [op |-> "tick"]
    /\ UNCHANGED <<store, loop, pads_year, gs_worksheet, handlers>>

---------------------------------------------------------------------------
(* The due-date helper applied to texts.                                   *)

NormTexts ==
    { "", "today", "TODAY", "ToDay", "due today 5pm", "tomorrow", "Tomorrow",
      "TOMORROW 10:00", "today or tomorrow", "tomorrow, not today",
      "2024-02-29", "2025-07-08", "2024-12-31", "2025-02-29", "2025-13-01",
      "2025-00-10", "2025-07-32", "0000-01-01", "2025-7-8", "2025-07- 8",
      "2025-07-08 10:00", "2024-12-31 23:59", "2024-02-29 00:00",
      "2025-7-8 9:5", "2025-07-08  10:00", "2025-07-08 9:05",
      "2025-07-08 24:00", "2025-07-08 10:60", "2025-07-08T10:00",
      "2025-07-08 10:00:00", "2025-02-30 10:00", "notadate", "next monday",
      "25-07-08", "2025/07/08", " 2025-07-08", "2025-07-08 ", "2025-07-08 10",
      "10:00" }

NormInputs == {None} \cup { Some(t) : t \in NormTexts }

Normalize ==
    /\ \E text \in NormInputs :
          last' = [op |-> "normalize", text |-> text,
                   result |-> parse_relative_due_date(text, today)]
    /\ UNCHANGED <<store, today, loop, pads_year, gs_worksheet, handlers>>

InitNorm ==
    /\ store = <<>>
    /\ today \in StartDays
    /\ last = [op |-> "none"]
    /\ loop = Idle
    /\ pads_year \in BOOLEAN
    /\ gs_worksheet = Worksheet
    /\ handlers = <<>>

NextNorm == Normalize \/ Tick

SpecNorm == InitNorm /\ [][NextNorm]_vars

---------------------------------------------------------------------------
(* The due-date helper applied to a text and then to its own result.       *)

IdemTexts ==
    { "2025-07-08 10:00", "2024-02-29 00:00", "2024-12-31 23:59",
      "1000-01-01 00:00", "0999-01-01 10:00", "0001-12-31 23:59",
      "2025-07-08", "0999-01-01", "2025-7-8", "2025-7-8 9:5",
      "2025-07-08  10:00", "today", "Tomorrow", "next monday", "notadate" }

NormalizeOnce ==
    /\ \E text \in IdemTexts :
          last' = [op |-> "normalized", text |-> text,
                   result |-> parse_relative_due_date(Some(text), today)]
    /\ UNCHANGED <<store, today, loop, pads_year, gs_worksheet, handlers>>

NormalizeAgain ==
    /\ last.op = "normalized"
    /\ last.result # None
    /\ last' = [op |-> "renormalized", text |-> last.text,
                first |-> last.result,
                result |-> parse_relative_due_date(last.result, today)]
    /\ UNCHANGED <<store, today, loop, pads_year, gs_worksheet, handlers>>

InitIdem ==
    /\ store = <<>>
    /\ today \in StartDays
    /\ last = [op |-> "none"]
    /\ loop = Idle
    /\ pads_year \in BOOLEAN
    /\ gs_worksheet = Worksheet
    /\ handlers = <<>>

NextIdem == NormalizeOnce \/ NormalizeAgain \/ Tick

SpecIdem == InitIdem /\ [][NextIdem]_vars

---------------------------------------------------------------------------
(* The bot serving commands one after the other.                           *)

\* the argument mappings with the keys of any subset of DOMAIN choices, the
\* value of key k drawn from choices[k]
ArgMaps(choices) ==
    UNION { { f \in [K -> UNION { choices[k] : k \in K }] :
                \A k \in K : f[k] \in choices[k] } : K \in SUBSET DOMAIN choices }

Bob == [id |-> 7, name |-> "bob", mention |-> "<@7>"]

Messages == { [author |-> 5, mentions |-> <<Bob>>] }

AddArgs ==
    ArgMaps([title |-> {Some("Ab"), Some("aB")},
             due_date |-> {Some("2024-12-31")}])

UpdateArgs ==
    { args \in ArgMaps([target_task_id |-> {Some("1"), Some("2")},
                        new_title |-> {Some("aB")},
                        new_due_date |-> {Some("2024-12-31")},
                        new_assignee |-> {Some(""), Some("bob")}]) :
        "target_task_id" \in DOMAIN args }

CompleteArgs ==
    ArgMaps([target_task_id |-> {Some("1"), Some("2")},
             target_task_title |-> {Some("ab")}])

Ran(op, message, args, fail, out) ==
    [op |-> op, message |-> message, args |-> args, fail |-> fail,
     replies |-> out.replies, call |-> out.call]

Add ==
    /\ loop.pc = "idle"
    /\ Len(store) < MaxTasks
    /\ \E message \in Messages, args \in AddArgs, fail \in {"none", "write"} :
          \E out \in {handle_add_task(store, today, message, args, fail)} :
              /\ store' = out.store
              /\ last' = Ran("add", message, args, fail, out)
    /\ UNCHANGED <<today, loop, pads_year, gs_worksheet, handlers>>

Update ==
    /\ loop.pc = "idle"
    /\ \E message \in Messages, args \in UpdateArgs, fail \in {"none", "write"} :
          \E out \in {handle_update_task(store, today, message, args, fail)} :
              /\ store' = out.store
              /\ last' = Ran("update", message, args, fail, out)
    /\ UNCHANGED <<today, loop, pads_year, gs_worksheet, handlers>>

Complete ==
    /\ loop.pc = "idle"
    /\ \E message \in Messages, args \in CompleteArgs,
          fail \in {"none", "read", "write"} :
          \E out \in {handle_complete_task(store, today, message, args, fail)} :
              /\ store' = out.store
              /\ last' = Ran("complete", message, args, fail, out)
    /\ UNCHANGED <<today, loop, pads_year, gs_worksheet, handlers>>

\* every year these behaviours format has four digits, where padding or not
\* gives the same text: the C library is the one that does not pad
Init ==
    /\ store = <<>>
    /\ today = MkDate(2024, 12, 30)
    /\ last = [op |-> "none"]
    /\ loop = Idle
    /\ pads_year = FALSE
    /\ gs_worksheet = Worksheet
    /\ handlers = <<>>

Next == Add \/ Update \/ Complete

Spec == Init /\ [][Next]_vars

---------------------------------------------------------------------------
(* Listings and reminder runs over a worksheet of tasks added before.      *)

\* the days, counted from a start day, that tasks are due on
ScanOffsets == {0, 1, 2, 6, 7}

\* what handle_add_task stores as due_date: nothing, a text the helper
\* could not read, or a date with the default time
DueTexts(start) ==
    {"", "next monday"}
        \cup { FormatDate(AddDays(start, n)) \o " " \o time_part : n \in ScanOffsets }

ScanRow(task_id, status, due_date, start) ==
    [task_id |-> task_id, title |-> "Ab", status |-> status, assignee_id |-> "",
     due_date |-> due_date, created_at |-> FormatDate(start) \o " " \o ClockTime]

\* the worksheets of n rows with the ids 1..n
ScanStoresOf(n, start) ==
    { [i \in 1..n |-> ScanRow(i, f[i][1], f[i][2], start)] :
        f \in [1..n -> {STATUS_PENDING, STATUS_COMPLETED} \X DueTexts(start)] }

ScanStores(start) == UNION { ScanStoresOf(n, start) : n \in 0..MaxRows }

ListArgs ==
    ArgMaps([due_date_range |-> {Some("next_seven_days"), Some("today")}])

List ==
    /\ loop.pc = "idle"
    /\ \E message \in Messages, args \in ListArgs, fail \in {"none", "read"} :
          \E out \in {handle_list_tasks(store, today, message, args, fail)} :
              /\ store' = out.store
              /\ last' = Ran("list", message, args, fail, out)
    /\ UNCHANGED <<today, loop, pads_year, gs_worksheet, handlers>>

\* lines 76-83 and 157-159 of reminder_loop: the tasks are read; the run
\* ends here when the read raises or gives no task
ReminderRead ==
    /\ loop.pc = "idle"
    /\ \E fail \in {"none", "read"} :
          \E tasks \in {reminder_read(store, today)} :
              IF fail = "read"
              THEN /\ last' = [group_tasks(<<>>, today) EXCEPT
                                 !.fail = fail,
                                 !.replies = <<Reply("reminder_error", <<>>)>>]
                                @@ [read_day |-> today]
                   /\ loop' = Idle
              ELSE IF tasks = <<>>
              THEN /\ last' = group_tasks(tasks, today) @@ [read_day |-> today]
                   /\ loop' = Idle
              ELSE /\ last' = [op |-> "reminder_read"]
                   /\ loop' = [pc |-> "grouping", tasks |-> tasks, day |-> today]
    /\ UNCHANGED <<store, today, pads_year, gs_worksheet, handlers>>

\* lines 85-155 of reminder_loop: the clock is read again and the tasks are
\* grouped; read_day is the date the read before took as today
ReminderGroup ==
    /\ loop.pc = "grouping"
    /\ last' = group_tasks(loop.tasks, today) @@ [read_day |-> loop.day]
    /\ loop' = Idle
    /\ UNCHANGED <<store, today, pads_year, gs_worksheet, handlers>>

InitScan ==
    /\ pads_year = FALSE
    /\ today \in StartDays
    /\ store \in ScanStores(today)
    /\ last = [op |-> "none"]
    /\ loop = Idle
    /\ gs_worksheet = Worksheet
    /\ handlers = <<>>

NextScan == List \/ ReminderRead \/ ReminderGroup \/ Tick

SpecScan == InitScan /\ [][NextScan]_vars

---------------------------------------------------------------------------
(* The reminder run with the text of its digest and with its failures.     *)

MessageLimit == 2000     \* the length above which the digest is cut
TruncateAt == 1990       \* the characters of the digest that are kept

\* the fixed texts of the run; each code point of an emoji is written "#"
REMINDER_HEADER == "**# Weekly Task Reminders!**\n"
DUE_TODAY_HEADER == "\n**# Due Today:**"
DUE_TOMORROW_HEADER == "\n**# Due Tomorrow:**"
UPCOMING_HEADER == "\n**## Upcoming (Next 7 Days):**"
TRUNCATED_MARK == "\n...(truncated)"
ERROR_PREFIX == "## Error encountered while generating task reminders: "

\* bot.fetch_user: the user is found, discord.NotFound is raised, or another
\* exception (discord.HTTPException) is raised
FetchOutcomes == {"found", "not_found", "raises"}

\* lines 122-126: the mention of the user found, the stored text otherwise
assignee_display(assignee_id, fetch) ==
    IF IsDigitStr(assignee_id) /\ fetch = "found"
    THEN "<@" \o assignee_id \o ">"
    ELSE assignee_id

\* lines 118-126: the line of one task
task_line(task, fetch) ==
    "- **ID " \o IntToStr(task.task_id) \o ":** " \o task.title
        \o (IF task.due_date # "" THEN " (Due: " \o task.due_date \o ")" ELSE "")
        \o (IF task.assignee_id # ""
            THEN " (Assigned: " \o assignee_display(task.assignee_id, fetch) \o ")"
            ELSE "")

\* lines 110-128
format_task_list(task_list, fetch) ==
    [i \in 1..Len(task_list) |-> task_line(task_list[i], fetch)]

\* lines 130-141: a list with a task gives its heading and its lines
Section(heading, task_list, fetch) ==
    IF task_list = <<>> THEN <<>>
    ELSE <<heading>> \o format_task_list(task_list, fetch)

\* lines 108 and 130-141
reminder_message_parts(grouping, fetch) ==
    <<REMINDER_HEADER>>
        \o Section(DUE_TODAY_HEADER, grouping.due_today_tasks, fetch)
        \o Section(DUE_TOMORROW_HEADER, grouping.due_tomorrow_tasks, fetch)
        \o Section(UPCOMING_HEADER, grouping.upcoming_tasks, fetch)

\* "\n".join(parts) of a list that is not empty
RECURSIVE JoinLines(_)
JoinLines(parts) ==
    IF Len(parts) = 1 THEN parts[1]
    ELSE parts[1] \o "\n" \o JoinLines(Tail(parts))

\* lines 146-150: the text handed to channel.send
digest_text(full_message) ==
    IF Len(full_message) > MessageLimit
    THEN SubSeq(full_message, 1, TruncateAt) \o TRUNCATED_MARK
    ELSE full_message

\* line 123: fetch_user is awaited for a task whose assignee_id is digits
Fetches(grouping) ==
    \E i \in 1..Len(grouping.tasks) :
        /\ GroupOf(grouping.tasks[i], grouping.day) # "none"
        /\ IsDigitStr(grouping.tasks[i].assignee_id)

\* what the run hands to channel.send inside the try block, and whether the
\* block raised
RunOutcome(digest, raised) == [digest |-> digest, raised |-> raised]

\* lines 85-155 for the tasks read and grouped
run_grouped(grouping, fail, fetch) ==
    IF grouping.tasks = <<>> THEN RunOutcome(<<>>, FALSE)
    ELSE IF fetch = "raises" /\ Fetches(grouping) THEN RunOutcome(<<>>, TRUE)
    ELSE IF Len(reminder_message_parts(grouping, fetch)) = 1
    THEN RunOutcome(<<>>, FALSE)
    ELSE RunOutcome(<<digest_text(JoinLines(reminder_message_parts(grouping, fetch)))>>,
                    fail = "send")

\* lines 76-155: the try block of reminder_loop
reminder_run(worksheet, now, fail, fetch) ==
    IF fail = "read" THEN RunOutcome(<<>>, TRUE)
    ELSE run_grouped(group_tasks(reminder_read(worksheet, now), now)
                        @@ [day |-> now], fail, fetch)

\* os.getenv("REMINDER_CHANNEL_ID") of a process whose on_ready started the
\* loop: on_ready starts it only for a text of digits (lines 52-56)
REMINDER_CHANNEL_ID == Some("42")

\* bot.get_channel: the channel, or None for an id the client does not know
Channels == {Some("reminders"), None}

\* lines 63-73: the tests a run makes before its try block
RunsOn(handle, channel_id, channel) ==
    /\ handle # None
    /\ Truthy(channel_id) /\ IsDigitStr(Val(channel_id))
    /\ channel # None

\* a faulty variant of reminder_loop: the store handle is not tested
reminder_loop_untested(handle, channel_id, channel, worksheet, now, fail, fetch) ==
    IF ~RunsOn(Worksheet, channel_id, channel) THEN RunOutcome(<<>>, FALSE)
    ELSE reminder_run(worksheet, now, fail, fetch)

\* lines 60-159: a run that fails one of its tests returns with no call made
reminder_loop(handle, channel_id, channel, worksheet, now, fail, fetch) ==
    IF ~RunsOn(handle, channel_id, channel) THEN RunOutcome(<<>>, FALSE)
    ELSE reminder_run(worksheet, now, fail, fetch)

\* discord.ext.tasks.Loop ends the schedule on an exception of the run that is
\* not a connection error; a connection error makes it run the body again
Stopped == [pc |-> "stopped"]

ErrorSendOutcomes == {"ok", "HTTPException", "ClientError"}

\* lines 157-159: the exception of the try block is answered with one more
\* channel.send, whose own exception nothing catches
AfterRun(raised, error_send) ==
    IF raised /\ error_send = "HTTPException" THEN Stopped ELSE Idle

\* one run of reminder_loop whose two readings of the clock give one date; a
\* run that returns before its try block makes no call that could fail
ReminderRun ==
    /\ loop.pc = "idle"
    /\ \E fail \in {"none", "read", "send"}, fetch \in FetchOutcomes,
          channel \in Channels :
          \E out \in {reminder_loop(gs_worksheet, REMINDER_CHANNEL_ID, channel,
                                    store, today, fail, fetch)},
             error_send \in ErrorSendOutcomes :
              /\ ~RunsOn(gs_worksheet, REMINDER_CHANNEL_ID, channel)
                    => fail = "none" /\ fetch = "found" /\ error_send = "ok"
              /\ last' = [op |-> "reminder_run", fail |-> fail, fetch |-> fetch,
                          handle |-> gs_worksheet, channel |-> channel,
                          error_send |-> error_send,
                          digest |-> out.digest, raised |-> out.raised,
                          error |-> IF out.raised THEN <<ERROR_PREFIX \o fail>>
                                    ELSE <<>>,
                          escaped |-> out.raised /\ error_send # "ok"]
              /\ loop' = AfterRun(out.raised, error_send)
    /\ UNCHANGED <<store, today, pads_year, gs_worksheet, handlers>>

RECURSIVE Repeated(_, _)
Repeated(s, n) ==
    IF n = 0 THEN ""
    ELSE IF n % 2 = 0 THEN Repeated(s \o s, n \div 2)
    ELSE s \o Repeated(s \o s, n \div 2)

\* titles of two characters and titles that bring a digest of one task to
\* MessageLimit characters and to one more
TitleLengths == {2, 1916, 1917}

DigestRow(task_id, length, offset, assignee_id, start) ==
    [task_id |-> task_id, title |-> Repeated("x", length),
     status |-> STATUS_PENDING, assignee_id |-> assignee_id,
     due_date |-> FormatDate(AddDays(start, offset)) \o " " \o time_part,
     created_at |-> FormatDate(start) \o " " \o ClockTime]

\* the day a row is due, counted from the start day, and its assignee_id
DueAndAssignee == { <<0, "">>, <<1, "7">>, <<2, "">> }

DigestStoresOf(n, start) ==
    { [i \in 1..n |-> DigestRow(i, f[i][1], f[i][2][1], f[i][2][2], start)] :
        f \in [1..n -> TitleLengths \X DueAndAssignee] }

DigestStores(start) == UNION { DigestStoresOf(n, start) : n \in 0..MaxRows }

InitRun ==
    /\ pads_year = FALSE
    /\ today = MkDate(2024, 12, 30)
    /\ store \in DigestStores(today)
    /\ last = [op |-> "none"]
    /\ loop = Idle
    /\ gs_worksheet = Worksheet
    /\ handlers = <<>>

NextRun == ReminderRun \/ Tick

SpecRun == InitRun /\ [][NextRun]_vars

---------------------------------------------------------------------------
(* Reminder runs with and without a store handle, over worksheets of       *)
(* pending and completed rows due in the week, outside it or on no date.   *)

InitRemind ==
    /\ pads_year = FALSE
    /\ today = MkDate(2024, 12, 30)
    /\ store \in ScanStores(today)
    /\ last = [op |-> "none"]
    /\ loop = Idle
    /\ gs_worksheet \in {Worksheet, None}
    /\ handlers = <<>>

NextRemind == ReminderRun \/ Tick

SpecRemind == InitRemind /\ [][NextRemind]_vars

---------------------------------------------------------------------------
(* on_message calls under way at the same time.  A call is suspended where *)
(* it awaits: the oracle's answer and the sending of its replies.  The     *)
(* store calls of a handler do not await.                                  *)

MaxMessages == 2    \* messages that arrive in one behaviour

Unsent == [pc |-> "unsent"]

\* a call of on_message: where it stands, the command of a message that
\* mentions the bot (None for a message that does not), the handle it tested,
\* its calls of the oracle and of the store, its replies, the row it appended
\* and the calls that were awaiting the oracle when it appended
Handler(pc, content, handle, oracle_calls, store_calls, replies, task_id, beside) ==
    [pc |-> pc, content |-> content, handle |-> handle,
     oracle_calls |-> oracle_calls, store_calls |-> store_calls,
     replies |-> replies, task_id |-> task_id, beside |-> beside]

\* a faulty variant of Received: the handle is not tested before the oracle
\* is asked
ReceivedUntested(addressed, clean_content, handle) ==
    IF ~addressed
    THEN Handler("done", None, handle, 0, 0, <<>>, None, {})
    ELSE IF clean_content = ""
    THEN Handler("sending", Some(clean_content), handle, 0, 0,
                 <<Reply("no_command", <<>>)>>, None, {})
    ELSE Handler("oracle", Some(clean_content), handle, 1, 0, <<>>, None, {})

\* lines 169-196 of on_message: up to the first await
Received(addressed, clean_content, handle) ==
    IF ~addressed
    THEN Handler("done", None, handle, 0, 0, <<>>, None, {})
    ELSE IF clean_content = ""
    THEN Handler("sending", Some(clean_content), handle, 0, 0,
                 <<Reply("no_command", <<>>)>>, None, {})
    ELSE IF handle = None
    THEN Handler("sending", Some(clean_content), handle, 0, 0,
                 <<Reply("trouble_connecting", <<>>)>>, None, {})
    ELSE Handler("oracle", Some(clean_content), handle, 1, 0, <<>>, None, {})

\* the message arrives
OnMessage(k) ==
    /\ handlers[k] = Unsent
    /\ \A j \in 1..(k - 1) : handlers[j] # Unsent
    /\ \E addressed \in BOOLEAN, clean_content \in {"", "add Ab"} :
          handlers' = [handlers EXCEPT
                         ![k] = Received(addressed, clean_content, gs_worksheet)]
    /\ last' = [op |-> "on_message", k |-> k]
    /\ UNCHANGED <<store, today, loop, pads_year, gs_worksheet>>

\* the calls that await the oracle's answer
AwaitingOracle == { j \in 1..MaxMessages : handlers[j].pc = "oracle" }

\* the name of a function the bot has no handler for
OracleFunctions == {None, Some("add_task"), Some("archive_task")}

\* the functions on_message has a handler for
KnownFunctions == {"add_task", "list_tasks", "update_task", "complete_task"}

\* lines 276-281, 340-345, 438-443, 520-525: each handler tests the handle
\* first
HandlerDispatched(function_name, handle, worksheet, now, message, args, fail) ==
    IF handle = None
    THEN Outcome(worksheet, <<Reply("no_database", <<>>)>>, "none")
    ELSE IF function_name = "add_task"
    THEN handle_add_task(worksheet, now, message, args, fail)
    ELSE IF function_name = "list_tasks"
    THEN handle_list_tasks(worksheet, now, message, args, fail)
    ELSE IF function_name = "update_task"
    THEN handle_update_task(worksheet, now, message, args, fail)
    ELSE handle_complete_task(worksheet, now, message, args, fail)

\* lines 199-213 of on_message
Dispatched(function_name, handle, worksheet, now, message, args, fail) ==
    IF function_name = None
    THEN Outcome(worksheet, <<Reply("not_understood", <<>>)>>, "none")
    ELSE IF Val(function_name) \in KnownFunctions
    THEN HandlerDispatched(Val(function_name), handle, worksheet, now, message,
                           args, fail)
    ELSE Outcome(worksheet, <<Reply("unknown_function", <<>>)>>, "none")

AddedId(out) ==
    IF out.call = "true" THEN Some(out.replies[1].ids[1]) ELSE None

\* the oracle answers: the handler runs up to the sending of its reply
OracleReturns(k) ==
    /\ handlers[k].pc = "oracle"
    /\ \E function_name \in OracleFunctions, message \in Messages,
          args \in AddArgs, fail \in {"none", "write"} :
          \E out \in {Dispatched(function_name, gs_worksheet, store, today,
                                 message, args, fail)} :
              /\ store' = out.store
              /\ handlers' = [handlers EXCEPT
                     ![k] = Handler("sending", handlers[k].content,
                                    handlers[k].handle, 1,
                                    IF out.call = "none" THEN 0 ELSE 1,
                                    out.replies, AddedId(out),
                                    AwaitingOracle \ {k})]
              /\ last' = [op |-> "oracle_returns", k |-> k,
                          function_name |-> function_name, args |-> args,
                          fail |-> fail, replies |-> out.replies]
    /\ UNCHANGED <<today, loop, pads_year, gs_worksheet>>

\* the sends of lines 187 and 192 stand outside the try block of on_message:
\* an exception of theirs leaves on_message, and the library, which runs
\* each event in a task of its own, logs it and goes on
SendOutcomes(replies) ==
    IF replies[1].kind \in {"no_command", "trouble_connecting"}
    THEN {"done", "failed"}
    ELSE {"done"}

\* the reply is sent, or the send raises, and the call of on_message ends
ReplySent(k) ==
    /\ handlers[k].pc = "sending"
    /\ \E outcome \in SendOutcomes(handlers[k].replies) :
          handlers' = [handlers EXCEPT ![k].pc = outcome]
    /\ last' = [op |-> "reply_sent", k |-> k]
    /\ UNCHANGED <<store, today, loop, pads_year, gs_worksheet>>

\* lines 35-50 of on_ready: the connection succeeds or fails
OnReady ==
    /\ \E handle \in {Worksheet, None} : gs_worksheet' = handle
    /\ last' = [op |-> "on_ready"]
    /\ UNCHANGED <<store, today, loop, pads_year, handlers>>

InitServe ==
    /\ store = <<>>
    /\ today = MkDate(2024, 12, 30)
    /\ last = [op |-> "none"]
    /\ loop = Idle
    /\ pads_year = FALSE
    /\ gs_worksheet = None
    /\ handlers = [k \in 1..MaxMessages |-> Unsent]

NextServe ==
    \/ OnReady
    \/ \E k \in 1..MaxMessages : OnMessage(k) \/ OracleReturns(k) \/ ReplySent(k)

SpecServe == InitServe /\ [][NextServe]_vars

---------------------------------------------------------------------------
(* The commands with the arguments a user may leave out or get wrong.      *)

AddInputs ==
    ArgMaps([title |-> {Some("Ab"), Some("aB")},
             assignee |-> {Some("me"), Some("My")}])

UpdateInputs ==
    ArgMaps([target_task_id |-> {Some("2"), Some("x")},
             new_title |-> {Some("Zz")}])

CompleteInputs ==
    ArgMaps([target_task_id |-> {Some("1"), Some("2"), Some("x")},
             target_task_title |-> {Some("ab"), Some("zz")}])

AddCommand ==
    /\ Len(store) < MaxTasks
    /\ \E message \in Messages, args \in AddInputs, fail \in {"none", "write"} :
          \E out \in {handle_add_task(store, today, message, args, fail)} :
              /\ store' = out.store
              /\ last' = Ran("add", message, args, fail, out)
    /\ UNCHANGED <<today, loop, pads_year, gs_worksheet, handlers>>

UpdateCommand ==
    /\ \E message \in Messages, args \in UpdateInputs, fail \in {"none", "write"} :
          \E out \in {handle_update_task(store, today, message, args, fail)} :
              /\ store' = out.store
              /\ last' = Ran("update", message, args, fail, out)
    /\ UNCHANGED <<today, loop, pads_year, gs_worksheet, handlers>>

CompleteCommand ==
    /\ \E message \in Messages, args \in CompleteInputs,
          fail \in {"none", "read", "write"} :
          \E out \in {handle_complete_task(store, today, message, args, fail)} :
              /\ store' = out.store
              /\ last' = Ran("complete", message, args, fail, out)
    /\ UNCHANGED <<today, loop, pads_year, gs_worksheet, handlers>>

NextInput == AddCommand \/ UpdateCommand \/ CompleteCommand

SpecInput == Init /\ [][NextInput]_vars

---------------------------------------------------------------------------
(* Messages handled one after the other, whatever function the oracle      *)
(* names.                                                                  *)

\* what the oracle may answer: no function, a function with its arguments,
\* or a function the bot has no handler for
OracleAnswers ==
    ({None, Some("archive_task")} \X ArgMaps(<<>>))
        \cup ({Some("add_task")} \X AddInputs)
        \cup ({Some("list_tasks")} \X ArgMaps([assignee |-> {Some("bob")}]))
        \cup ({Some("update_task")} \X UpdateInputs)
        \cup ({Some("complete_task")} \X CompleteInputs)

\* the store calls of a command that may raise: Add and Update make the one
\* that writes, Complete reads for a title and writes, List reads
StoreFailures(function_name) ==
    IF function_name \in {Some("add_task"), Some("update_task")}
    THEN {"none", "write"}
    ELSE IF function_name = Some("complete_task") THEN {"none", "read", "write"}
    ELSE IF function_name = Some("list_tasks") THEN {"none", "read"}
    ELSE {"none"}

\* lines 195-213 with the oracle's answer: one command is handled
MessageHandled ==
    /\ \E message \in Messages, answer \in OracleAnswers :
       \E fail \in StoreFailures(answer[1]) :
          \E out \in {Dispatched(answer[1], gs_worksheet, store, today, message,
                                 answer[2], fail)} :
              /\ answer[1] = Some("add_task") => Len(store) < MaxTasks
              /\ store' = out.store
              /\ last' = Ran("message", message, answer[2], fail, out)
                             @@ [function_name |-> answer[1]]
    /\ UNCHANGED <<today, loop, pads_year, gs_worksheet, handlers>>

NextDispatch == MessageHandled

SpecDispatch == Init /\ [][NextDispatch]_vars

---------------------------------------------------------------------------
(* Listings with an assignee filter and a date filter over a filled        *)
(* worksheet.                                                              *)

ListDay == MkDate(2024, 12, 30)

\* the assignee_id and the due_date of a row: nobody and no date, a user's
\* id and a date counted from ListDay, or a text the helper could not read
AssigneeAndDue ==
    { <<"", "">>, <<"5", "next monday">>,
      <<"5", FormatDate(ListDay) \o " " \o time_part>>,
      <<"7", FormatDate(AddDays(ListDay, 1)) \o " " \o time_part>>,
      <<"", FormatDate(AddDays(ListDay, 7)) \o " " \o time_part>> }

ListRow(task_id, status, assignee_id, due_date) ==
    [task_id |-> task_id, title |-> "Ab", status |-> status,
     assignee_id |-> assignee_id, due_date |-> due_date,
     created_at |-> FormatDate(ListDay) \o " " \o ClockTime]

ListStoresOf(n) ==
    { [i \in 1..n |-> ListRow(i, f[i][1], f[i][2][1], f[i][2][2])] :
        f \in [1..n -> {STATUS_PENDING, STATUS_COMPLETED} \X AssigneeAndDue] }

ListStores == UNION { ListStoresOf(n) : n \in 0..MaxRows }

ListInputs ==
    ArgMaps([assignee |-> {Some("Me"), Some("bob")},
             due_date_range |-> {Some("today"), Some("next_seven_days"),
                                 Some("this_week"), Some("2024-12-31")}])

ListCommand ==
    /\ \E message \in Messages, args \in ListInputs, fail \in {"none", "read"} :
          \E out \in {handle_list_tasks(store, today, message, args, fail)} :
              /\ store' = out.store
              /\ last' = Ran("list", message, args, fail, out)
    /\ UNCHANGED <<today, loop, pads_year, gs_worksheet, handlers>>

\* midnight passes, once
Midnight ==
    /\ today = ListDay
    /\ today' = NextDay(today)
    /\ last' = [op |-> "tick"]
    /\ UNCHANGED <<store, loop, pads_year, gs_worksheet, handlers>>

InitList ==
    /\ pads_year = FALSE
    /\ today = ListDay
    /\ store \in ListStores
    /\ last = [op |-> "none"]
    /\ loop = Idle
    /\ gs_worksheet = Worksheet
    /\ handlers = <<>>

NextList == ListCommand \/ Midnight

SpecList == InitList /\ [][NextList]_vars

---------------------------------------------------------------------------
(* Add and Update with due texts the helper reads and due texts it         *)
(* refuses.                                                                *)

\* texts of ten characters and of other lengths, with a colon and without
RawDueTexts ==
    { "2024-12-31", "tomorrow", "2024-13-01", "soon", "12:30 noon",
      "2024-12-31 25:00", "2024-02-30", "next monday" }

AddDueInputs ==
    { args \in ArgMaps([title |-> {Some("Ab")},
                        due_date |-> { Some(t) : t \in RawDueTexts }]) :
        "title" \in DOMAIN args }

UpdateDueInputs ==
    { args \in ArgMaps([target_task_id |-> {Some("1"), Some("3")},
                        new_due_date |-> { Some(t) : t \in RawDueTexts }]) :
        "target_task_id" \in DOMAIN args }

AddDue ==
    /\ Len(store) < MaxTasks
    /\ \E message \in Messages, args \in AddDueInputs, fail \in {"none", "write"} :
          \E out \in {handle_add_task(store, today, message, args, fail)} :
              /\ store' = out.store
              /\ last' = Ran("add", message, args, fail, out)
    /\ UNCHANGED <<today, loop, pads_year, gs_worksheet, handlers>>

UpdateDue ==
    /\ \E message \in Messages, args \in UpdateDueInputs, fail \in {"none", "write"} :
          \E out \in {handle_update_task(store, today, message, args, fail)} :
              /\ store' = out.store
              /\ last' = Ran("update", message, args, fail, out)
    /\ UNCHANGED <<today, loop, pads_year, gs_worksheet, handlers>>

NextDue == AddDue \/ UpdateDue

SpecDue == Init /\ [][NextDue]_vars

---------------------------------------------------------------------------
(* Add and Update with an assignee written as a name and as a mention.     *)

\* the name of the user mentioned, the two encodings of a mention of that
\* user, and the name of a user who is not mentioned
AssigneeTexts == { "bob", "<@7>", "<@!7>", "carol" }

AddAssigneeInputs ==
    { args \in ArgMaps([title |-> {Some("Ab")},
                        assignee |-> { Some(t) : t \in AssigneeTexts }]) :
        "title" \in DOMAIN args }

UpdateAssigneeInputs ==
    { args \in ArgMaps([target_task_id |-> {Some("1"), Some("2")},
                        new_assignee |-> { Some(t) : t \in AssigneeTexts }]) :
        "target_task_id" \in DOMAIN args }

AddFor ==
    /\ Len(store) < MaxTasks
    /\ \E message \in Messages, args \in AddAssigneeInputs, fail \in {"none", "write"} :
          \E out \in {handle_add_task(store, today, message, args, fail)} :
              /\ store' = out.store
              /\ last' = Ran("add", message, args, fail, out)
    /\ UNCHANGED <<today, loop, pads_year, gs_worksheet, handlers>>

UpdateFor ==
    /\ \E message \in Messages, args \in UpdateAssigneeInputs,
          fail \in {"none", "write"} :
          \E out \in {handle_update_task(store, today, message, args, fail)} :
              /\ store' = out.store
              /\ last' = Ran("update", message, args, fail, out)
    /\ UNCHANGED <<today, loop, pads_year, gs_worksheet, handlers>>

NextAssignee == AddFor \/ UpdateFor

SpecAssignee == Init /\ [][NextAssignee]_vars

---------------------------------------------------------------------------
(* The text of a listing (lines 389-436 of handle_list_tasks).             *)

ListLinesKept == 30
ManyRows == 45      \* rows of the one long worksheet drawn for a listing

LIST_TRUNCATED_MARK == "\n...(list too long, truncated)"
LIST_ERROR_PREFIX == "Sorry, I couldn't list the tasks. Error: "

\* lines 350-380: the name the reply gives the assignee filter, for a filter
\* that is no user of the message
response_assignee_name(assignee_filter_str) ==
    IF ~Truthy(assignee_filter_str) THEN "everyone" ELSE Val(assignee_filter_str)

\* lines 391-397
none_found_text(name, due_date_range_filter) ==
    "No pending tasks found"
        \o (IF name # "everyone" THEN " for " \o name ELSE "")
        \o (IF Truthy(due_date_range_filter)
            THEN " due " \o Val(due_date_range_filter) ELSE "")
        \o "."

\* lines 400-404
list_heading(name, due_date_range_filter) ==
    "**Pending Tasks**"
        \o (IF name # "everyone" THEN " for **" \o name \o "**" ELSE "")
        \o (IF Truthy(due_date_range_filter)
            THEN " (Due: **" \o Val(due_date_range_filter) \o "**)" ELSE "")

\* lines 419-423: the name of the user found, the stored text otherwise
list_assignee_display(assignee, fetch) ==
    IF IsDigitStr(assignee) /\ fetch = "found" /\ assignee = IntToStr(Bob.id)
    THEN Bob.name
    ELSE assignee

\* lines 409-424: the line of one task
list_task_line(task, fetch) ==
    "**ID " \o IntToStr(task.task_id) \o ":** " \o task.title
        \o (IF task.due_date # "" THEN " (Due: " \o task.due_date \o ")" ELSE "")
        \o (IF task.assignee_id # ""
            THEN " (Assigned: " \o list_assignee_display(task.assignee_id, fetch) \o ")"
            ELSE "")

\* lines 400-424
response_lines(tasks, name, due_date_range_filter, fetch) ==
    <<list_heading(name, due_date_range_filter), "---">>
        \o [i \in 1..Len(tasks) |-> list_task_line(tasks[i], fetch)]

\* lines 428-432: the text handed to channel.send
list_text(lines, full_response) ==
    IF Len(full_response) > MessageLimit
    THEN JoinLines(SubSeq(lines, 1, IF Len(lines) < ListLinesKept
                                    THEN Len(lines) ELSE ListLinesKept))
            \o LIST_TRUNCATED_MARK
    ELSE full_response

\* line 419: fetch_user is awaited for a task whose assignee is digits
ListFetches(tasks) == \E i \in 1..Len(tasks) : IsDigitStr(tasks[i].assignee_id)

\* lines 389-436 for the tasks read
listing_text(tasks, args, fetch) ==
    IF tasks = <<>>
    THEN none_found_text(response_assignee_name(Get(args, "assignee")),
                         Get(args, "due_date_range"))
    ELSE IF fetch = "raises" /\ ListFetches(tasks)
    THEN LIST_ERROR_PREFIX \o fetch
    ELSE list_text(response_lines(tasks, response_assignee_name(Get(args, "assignee")),
                                  Get(args, "due_date_range"), fetch),
                   JoinLines(response_lines(tasks,
                                            response_assignee_name(Get(args, "assignee")),
                                            Get(args, "due_date_range"), fetch)))

\* lines 383-436: the one text the listing sends
handle_list_tasks_text(worksheet, now, message, args, fail, fetch) ==
    IF fail = "read" THEN LIST_ERROR_PREFIX \o fail
    ELSE listing_text(listed_tasks(worksheet, now, message, args), args, fetch)

\* titles of two characters, of the length that brings the listing of one
\* task to MessageLimit characters and of one more, and ordinary titles
ListTitleLengths == {2, 1968, 1969}

TextRow(task_id, length, assignee_id) ==
    [task_id |-> task_id, title |-> Repeated("x", length),
     status |-> STATUS_PENDING, assignee_id |-> assignee_id,
     due_date |-> "",
     created_at |-> FormatDate(ListDay) \o " " \o ClockTime]

\* worksheets of a few rows, and one of ManyRows rows with titles of 40
\* characters
TextStores ==
    UNION { { [i \in 1..n |-> TextRow(i, f[i][1], f[i][2])] :
                f \in [1..n -> ListTitleLengths \X {"", "7", "carol"}] } :
            n \in 0..MaxRows }
    \cup { [i \in 1..ManyRows |-> TextRow(i, 40, "")] }

ListTextInputs == ArgMaps([assignee |-> {Some("carol")}])

ListText ==
    /\ \E message \in Messages, args \in ListTextInputs, fail \in {"none", "read"},
          fetch \in FetchOutcomes :
          last' = [op |-> "list", args |-> args, fail |-> fail, fetch |-> fetch,
                   tasks |-> Len(listed_tasks(store, today, message, args)),
                   text |-> handle_list_tasks_text(store, today, message, args,
                                                   fail, fetch)]
    /\ UNCHANGED <<store, today, loop, pads_year, gs_worksheet, handlers>>

InitListText ==
    /\ pads_year = FALSE
    /\ today = ListDay
    /\ store \in TextStores
    /\ last = [op |-> "none"]
    /\ loop = Idle
    /\ gs_worksheet = Worksheet
    /\ handlers = <<>>

NextListText == ListText

SpecListText == InitListText /\ [][NextListText]_vars

---------------------------------------------------------------------------
(* Complete by id, once and once more, over a filled worksheet.            *)

CompleteByIdInputs ==
    { [target_task_id |-> Some(t)] : t \in {"1", "2", "3"} }

\* what a command did, with the worksheet it found
RanOn(op, message, args, fail, out, worksheet) ==
    [op |-> op, message |-> message, args |-> args, fail |-> fail,
     replies |-> out.replies, call |-> out.call, before |-> worksheet]

CompleteOnce ==
    /\ last.op = "none"
    /\ \E message \in Messages, args \in CompleteByIdInputs,
          fail \in {"none", "write"} :
          \E out \in {handle_complete_task(store, today, message, args, fail)} :
              /\ store' = out.store
              /\ last' = RanOn("complete", message, args, fail, out, store)
    /\ UNCHANGED <<today, loop, pads_year, gs_worksheet, handlers>>

\* the user sends the command that was carried out a second time
CompleteAgain ==
    /\ last.op = "complete"
    /\ last.call = "true"
    /\ \E fail \in {"none", "write"} :
          \E out \in {handle_complete_task(store, today, last.message, last.args,
                                           fail)} :
              /\ store' = out.store
              /\ last' = RanOn("complete_again", last.message, last.args, fail,
                               out, store)
    /\ UNCHANGED <<today, loop, pads_year, gs_worksheet, handlers>>

InitTwice ==
    /\ pads_year = FALSE
    /\ today = ListDay
    /\ store \in ListStores
    /\ last = [op |-> "none"]
    /\ loop = Idle
    /\ gs_worksheet = Worksheet
    /\ handlers = <<>>

NextTwice == CompleteOnce \/ CompleteAgain

SpecTwice == InitTwice /\ [][NextTwice]_vars

---------------------------------------------------------------------------
(* Properties of the commands served one after the other (Spec).           *)

IdsOf(worksheet) == { worksheet[i].task_id : i \in 1..Len(worksheet) }

\* the task id an argument mapping names
TargetId(args) == ParseInt(Val(Get(args, "target_task_id"))).val

NamesId(args) ==
    /\ Get(args, "target_task_id") # None
    /\ ParseInt(Val(Get(args, "target_task_id"))).ok

\* s is a date written YYYY-MM-DD
IsYmdText(s) ==
    /\ Len(s) = 10
    /\ Ch(s, 5) = "-" /\ Ch(s, 8) = "-"
    /\ IsDigitStr(SubSeq(s, 1, 4) \o SubSeq(s, 6, 7) \o SubSeq(s, 9, 10))
    /\ ValidDate(NumVal(SubSeq(s, 1, 4)), NumVal(SubSeq(s, 6, 7)),
                 NumVal(SubSeq(s, 9, 10)))

\* the elements of a sequence
Elems(seq) == { seq[i] : i \in 1..Len(seq) }

\* C1: after any sequence of Add, Update and Complete commands, each run to
\* its end before the next, no two rows of the store have the same task_id.
C1_UniqueIds ==
    \A i, j \in 1..Len(store) : i # j => store[i].task_id # store[j].task_id

\* two rows are in the store and an Update has just rewritten one of them
C1_Witness ==
    /\ Len(store) = 2
    /\ last.op = "update" /\ last.call = "true"

C3_StatusOneWay ==
    [][ \A i \in 1..Len(store) :
          store[i].status = STATUS_COMPLETED
          => /\ i <= Len(store')
             /\ store'[i].task_id = store[i].task_id
             /\ store'[i].status = STATUS_COMPLETED
      ]_vars

\* an Update has just rewritten a completed row
C3_Witness ==
    /\ last.op = "update" /\ last.call = "true"
    /\ \E i \in 1..Len(store) :
          /\ store[i].task_id = TargetId(last.args)
          /\ store[i].status = STATUS_COMPLETED

\* the argument mapping names a task and, of the three fields an Update
\* can change, holds only new_assignee, with the empty text
OnlyClearsAssignee(args) ==
    /\ NamesId(args)
    /\ DOMAIN args = {"target_task_id", "new_assignee"}
    /\ Get(args, "new_assignee") = Some("")

\* C4: an Update naming an existing task whose argument mapping holds, of
\* the three fields, only new_assignee with the empty text, leaves the row
\* with an empty assignee_id and with its title and due_date as they were.
C4_ClearsAssignee ==
    [][ (/\ last'.op = "update"
         /\ last'.fail = "none"
         /\ OnlyClearsAssignee(last'.args)
         /\ TargetId(last'.args) \in IdsOf(store))
        => /\ Len(store') = Len(store)
           /\ \A i \in 1..Len(store) :
                 store[i].task_id = TargetId(last'.args)
                 => /\ store'[i].assignee_id = ""
                    /\ store'[i].title = store[i].title
                    /\ store'[i].due_date = store[i].due_date
      ]_vars

\* C5: an Update naming an existing task changes, of title, assignee_id and
\* due_date, only the fields whose keys are in the argument mapping; it
\* changes no task_id, status or created_at, no field of a row other than
\* the one named, and not the number of rows.
C5_UpdateFrame ==
    [][ (/\ last'.op = "update"
         /\ NamesId(last'.args)
         /\ TargetId(last'.args) \in IdsOf(store))
        => /\ Len(store') = Len(store)
           /\ \A i \in 1..Len(store) :
                 /\ store'[i].task_id = store[i].task_id
                 /\ store'[i].status = store[i].status
                 /\ store'[i].created_at = store[i].created_at
                 /\ store[i].task_id # TargetId(last'.args) => store'[i] = store[i]
                 /\ "new_title" \notin DOMAIN last'.args
                    => store'[i].title = store[i].title
                 /\ "new_assignee" \notin DOMAIN last'.args
                    => store'[i].assignee_id = store[i].assignee_id
                 /\ "new_due_date" \notin DOMAIN last'.args
                    => store'[i].due_date = store[i].due_date
      ]_vars

\* an Update holding only new_title has just rewritten the title of one of
\* two rows, a row that has an assignee and a due date
C5_Witness ==
    /\ last.op = "update" /\ last.call = "true"
    /\ DOMAIN last.args = {"target_task_id", "new_title"}
    /\ Len(store) = 2
    /\ \E i \in 1..2 :
          /\ store[i].task_id = TargetId(last.args)
          /\ store[i].title = "aB"
          /\ store[i].assignee_id # ""
          /\ store[i].due_date # ""

\* the rows, in row order, that are pending and have the title, letter case
\* aside
PendingTitled(worksheet, title) ==
    SelectSeq(worksheet, LAMBDA task :
                /\ task.status = STATUS_PENDING
                /\ Lower(task.title) = Lower(title))

TitleOnly(args) ==
    /\ "target_task_id" \notin DOMAIN args
    /\ Truthy(Get(args, "target_task_title"))

\* C6: a Complete given a title only (the read not raising), when two or
\* more pending rows have that title letter case aside, sends one reply that
\* reports the ambiguity and lists the id of every such row, and leaves the
\* store as it was.
C6_AmbiguousTitle ==
    [][ (/\ last'.op = "complete"
         /\ last'.fail # "read"
         /\ TitleOnly(last'.args)
         /\ Len(PendingTitled(store, Val(Get(last'.args, "target_task_title")))) >= 2)
        => /\ store' = store
           /\ last'.call = "none"
           /\ Len(last'.replies) = 1
           /\ last'.replies[1].kind = "ambiguous"
           /\ Elems(last'.replies[1].ids) =
                 IdsOf(PendingTitled(store, Val(Get(last'.args, "target_task_title"))))
      ]_vars

\* a Complete by title has just met two pending rows whose titles differ in
\* letter case only
C6_Witness ==
    /\ last.op = "complete"
    /\ TitleOnly(last.args)
    /\ Len(store) = 2
    /\ store[1].title # store[2].title
    /\ store[1].status = STATUS_PENDING /\ store[2].status = STATUS_PENDING
    /\ last.replies = <<Reply("ambiguous", <<1, 2>>)>>

\* C7: a Complete by an integer task_id that no row has (the store call not
\* raising) gets False from the store function, which does not raise, sends
\* exactly one reply, of the not-found kind, and leaves the store as it was.
C7_CompleteMissingId ==
    [][ (/\ last'.op = "complete"
         /\ last'.fail = "none"
         /\ NamesId(last'.args)
         /\ TargetId(last'.args) \notin IdsOf(store))
        => /\ store' = store
           /\ last'.call = "false"
           /\ Len(last'.replies) = 1
           /\ last'.replies[1] = Reply("complete_failed", <<TargetId(last'.args)>>)
      ]_vars

\* a Complete has just named the id 2 in a store whose only row has id 1
C7_Witness ==
    /\ last.op = "complete" /\ last.call = "false"
    /\ Len(store) = 1
    /\ TargetId(last.args) = 2

---------------------------------------------------------------------------
(* Properties of listings and reminder runs (SpecScan).                    *)

\* the task is due on the date dt: its due_date is dt written YYYY-MM-DD,
\* alone or followed by a blank and a time
DueOn(task, dt) ==
    /\ Len(task.due_date) >= 10
    /\ SubSeq(task.due_date, 1, 10) = FormatDate(dt)
    /\ Len(task.due_date) > 10 => Ch(task.due_date, 11) = " "

\* the task is due on one of the days from + lo .. from + hi
DueBetween(task, from, lo, hi) == \E n \in lo..hi : DueOn(task, AddDays(from, n))

\* the pending rows due on today or one of the six days after, in row order
PendingDueInWeek(worksheet, day) ==
    SelectSeq(worksheet, LAMBDA task :
                /\ task.status = STATUS_PENDING
                /\ DueBetween(task, day, 0, 6))

\* C8: the next_seven_days filter, as the listing and the reminder run
\* apply it to the store, gives exactly the rows whose status is pending
\* and whose due date d has today <= d < today + 7, in row order.
C8_NextSevenDays ==
    /\ (/\ last.op = "list"
        /\ last.fail = "none"
        /\ Get(last.args, "due_date_range") = Some("next_seven_days"))
       => last.replies =
             IF PendingDueInWeek(store, today) = <<>>
             THEN <<Reply("none_found", <<>>)>>
             ELSE <<Reply("listing", ids_found(PendingDueInWeek(store, today)))>>
    /\ (loop.pc = "grouping" /\ loop.day = today)
       => loop.tasks = PendingDueInWeek(store, today)
    /\ (last.op = "reminder" /\ last.fail = "none" /\ last.read_day = today)
       => Elems(last.tasks) \subseteq Elems(PendingDueInWeek(store, today))
    /\ (last.op = "reminder" /\ last.fail = "none" /\ last.tasks = <<>>)
       => PendingDueInWeek(store, today) = <<>>

\* a listing of the next seven days has just returned the pending task due
\* on today + 6 and left out the pending task due on today + 7
C8_Witness ==
    /\ last.op = "list" /\ last.fail = "none"
    /\ Get(last.args, "due_date_range") = Some("next_seven_days")
    /\ Len(store) = 2
    /\ store[1].status = STATUS_PENDING /\ DueOn(store[1], AddDays(today, 7))
    /\ store[2].status = STATUS_PENDING /\ DueOn(store[2], AddDays(today, 6))
    /\ last.replies = <<Reply("listing", <<2>>)>>

---------------------------------------------------------------------------
(* Properties of the due-date helper (SpecNorm).                           *)

\* the years of the dates written in the texts
CalendarYears == {2024, 2025}

CalendarDays ==
    { dt \in [y : CalendarYears, m : 1..12, d : 1..31] : ValidDate(dt.y, dt.m, dt.d) }

\* a number below 100 written with or without a leading zero
Written(n) == {NatToStr(n), Pad2(n)}

\* a day of the month may also be written with a blank for the zero
DayWritten(d) == Written(d) \cup (IF d < 10 THEN {" " \o NatToStr(d)} ELSE {})

\* the ways to write a date as year-month-day
DateWritings(dt) ==
    { Pad4(dt.y) \o "-" \o a \o "-" \o b : a \in Written(dt.m), b \in DayWritten(dt.d) }

\* the dates with a way of writing them that the text begins with
DateReadings(s) ==
    { p \in UNION { { <<dt, w>> : w \in DateWritings(dt) } : dt \in CalendarDays } :
        Len(s) >= Len(p[2]) /\ SubSeq(s, 1, Len(p[2])) = p[2] }

\* the number of blanks the text begins with
LeadingBlanks(s) ==
    CHOOSE k \in 0..Len(s) :
        /\ \A i \in 1..k : IsSpace(Ch(s, i))
        /\ k = Len(s) \/ ~IsSpace(Ch(s, k + 1))

\* the times of day the text writes as hour:minute
TimeReadings(r) ==
    { hm \in (0..23) \X (0..59) :
        \E c \in 2..(Len(r) - 1) :
            /\ Ch(r, c) = ":"
            /\ SubSeq(r, 1, c - 1) \in Written(hm[1])
            /\ SubSeq(r, c + 1, Len(r)) \in Written(hm[2]) }

\* the text after the first n characters and the blanks that follow them,
\* provided there is a blank there
AfterBlanks(s, n) ==
    IF LeadingBlanks(SubSeq(s, n + 1, Len(s))) = 0 THEN ""
    ELSE SubSeq(s, n + 1 + LeadingBlanks(SubSeq(s, n + 1, Len(s))), Len(s))

\* the date-times the text writes: a date, one or more blanks, a time
DateTimeReadings(s) ==
    UNION { { <<p[1], hm[1], hm[2]>> : hm \in TimeReadings(AfterBlanks(s, Len(p[2]))) } :
              p \in DateReadings(s) }

\* the dates the whole text writes
DateOnlyReadings(s) == { p[1] : p \in { q \in DateReadings(s) : Len(q[2]) = Len(s) } }

Canonical(r) == FormatDate(r[1]) \o " " \o Pad2(r[2]) \o ":" \o Pad2(r[3])

\* what the helper gives for a non-empty text
NormalFormOf(s, now) ==
    IF Contains(Lower(s), "today") THEN Some(FormatDate(now) \o " 23:59")
    ELSE IF Contains(Lower(s), "tomorrow")
    THEN Some(FormatDate(AddDays(now, 1)) \o " 23:59")
    ELSE IF DateTimeReadings(s) # {}
    THEN Some(Canonical(CHOOSE r \in DateTimeReadings(s) : TRUE))
    ELSE IF DateOnlyReadings(s) # {}
    THEN Some(FormatDate(CHOOSE dt \in DateOnlyReadings(s) : TRUE) \o " 23:59")
    ELSE None

IsYmdhmText(s) ==
    /\ Len(s) = 16
    /\ IsYmdText(SubSeq(s, 1, 10))
    /\ Ch(s, 11) = " " /\ Ch(s, 14) = ":"
    /\ IsDigitStr(SubSeq(s, 12, 13) \o SubSeq(s, 15, 16))
    /\ NumVal(SubSeq(s, 12, 13)) <= 23
    /\ NumVal(SubSeq(s, 15, 16)) <= 59

---------------------------------------------------------------------------
(* C11: the due-date helper is idempotent: applied to a canonical          *)
(* "YYYY-MM-DD HH:MM" text it returns that text, and applied to a result   *)
(* of its own it returns that result again.                                *)

C11_Idempotent ==
    /\ (last.op = "normalized" /\ IsYmdhmText(last.text))
          => last.result = Some(last.text)
    /\ last.op = "renormalized" => last.result = last.first

---------------------------------------------------------------------------
(* C12: every digest the reminder run hands to channel.send has at most    *)
(* MessageLimit (2000) characters, the cut digest with its marker included.*)

C12_DigestWithinLimit ==
    last.op = "reminder_run"
    => \A i \in 1..Len(last.digest) : Len(last.digest[i]) <= MessageLimit

---------------------------------------------------------------------------
(* C13: no failure inside a reminder run escapes the run: after a run in   *)
(* which the store read, the display-name lookup, the sending of the       *)
(* digest or the sending of the error message failed, no exception has     *)
(* left the run and the daily schedule is still active.                    *)

C13_RunContainsFailures ==
    (last.op = "reminder_run" /\ last.raised)
    => (~last.escaped /\ loop.pc = "idle")

---------------------------------------------------------------------------
(* Properties of on_message calls under way at the same time (SpecServe).  *)

Arrived == { k \in 1..MaxMessages : handlers[k] # Unsent }

\* the calls whose Add appended a row
Appended == { k \in Arrived : handlers[k].task_id # None }

\* two calls that both appended a row, the first of them while the second
\* was suspended at the oracle
AddsSideBySide ==
    { pair \in Appended \X Appended : pair[2] \in handlers[pair[1]].beside }

SharedTaskId ==
    \E i, j \in 1..Len(store) : i # j /\ store[i].task_id = store[j].task_id

(* C14, as amended: two Adds started by two messages can be under way at  *)
(* the same time, but add_task reads the largest task_id and appends with  *)
(* no await between the two, so no two records carry the same task_id and  *)
(* no two Adds were given the same task_id.                                *)
C14_NoSharedTaskId ==
    /\ ~SharedTaskId
    /\ \A k, j \in Appended :
          k # j => handlers[k].task_id # handlers[j].task_id

C14_Witness == AddsSideBySide # {}

(* C14 as stated: two Adds under way at the same time, each started before *)
(* the other appended, leave two records with the same task_id.            *)
C14_AsStated == AddsSideBySide # {} => SharedTaskId

---------------------------------------------------------------------------
(* Properties of the commands with arguments left out or wrong (SpecInput).*)

Given(args, key) == key \in DOMAIN args /\ args[key] # None

\* a text that is a number written in decimal digits
IsNumberText(s) == s # "" /\ IsDigitStr(s)

\* the input errors of a command: Add without a title; Update without an
\* id, with an id that is no number, or with none of the three new values;
\* Complete with an id that is no number, or with neither id nor title
InputError(ran) ==
    \/ /\ ran.op = "add"
       /\ ~Given(ran.args, "title")
    \/ /\ ran.op = "update"
       /\ \/ ~Given(ran.args, "target_task_id")
          \/ ~IsNumberText(Val(ran.args["target_task_id"]))
          \/ /\ ~Given(ran.args, "new_title")
             /\ ~Given(ran.args, "new_due_date")
             /\ ~Given(ran.args, "new_assignee")
    \/ /\ ran.op = "complete"
       /\ \/ /\ Given(ran.args, "target_task_id")
             /\ ~IsNumberText(Val(ran.args["target_task_id"]))
          \/ /\ ~Given(ran.args, "target_task_id")
             /\ ~Given(ran.args, "target_task_title")

InputErrorReplies ==
    {"need_title", "need_id", "bad_id", "need_fields", "need_id_or_title"}

---------------------------------------------------------------------------
(* C16: in Add, an assignee that is "me" or "my" in any letter case is     *)
(* stored as the id of the user who sent the message, so that the row is   *)
(* among those the same user's List with the assignee "me" gives.          *)

C16_SelfReference ==
    (/\ last.op = "add"
     /\ last.call = "true"
     /\ Given(last.args, "assignee")
     /\ Lower(Val(last.args["assignee"])) \in {"me", "my"})
    => /\ store[Len(store)].assignee_id = IntToStr(last.message.author)
       /\ \E i \in 1..Len(listed_tasks(store, today, last.message,
                                         [assignee |-> Some("me")])) :
              listed_tasks(store, today, last.message,
                           [assignee |-> Some("me")])[i].task_id
                  = store[Len(store)].task_id

---------------------------------------------------------------------------
TitleLookupReplies ==
    {"found_by_title", "ambiguous", "title_not_found", "lookup_error"}

(* C17: when Complete is given an id that is a number and a title as well, *)
(* the id decides: no reply of a title lookup is sent, no row is added or  *)
(* removed, and a row that changes is the row with that id.                *)
C17_IdTakesPriority ==
    [][(/\ last'.op = "complete"
        /\ Given(last'.args, "target_task_id")
        /\ IsNumberText(Val(last'.args["target_task_id"]))
        /\ Given(last'.args, "target_task_title"))
         => /\ Len(store') = Len(store)
            /\ \A i \in 1..Len(store) :
                  store'[i] # store[i]
                      => /\ IntToStr(store[i].task_id)
                              = Val(last'.args["target_task_id"])
                         /\ store'[i] = [store[i] EXCEPT !.status = STATUS_COMPLETED]
            /\ \A n \in 1..Len(last'.replies) :
                  last'.replies[n].kind \notin TitleLookupReplies]_vars

\* Complete with the id 2 and the title of row 1: row 2 is completed and
\* row 1, pending under that title, stays pending
C17_Witness ==
    /\ last.op = "complete"
    /\ Get(last.args, "target_task_id") = Some("2")
    /\ Get(last.args, "target_task_title") = Some("ab")
    /\ last.replies = <<Reply("completed", <<2>>)>>
    /\ Len(store) = 2
    /\ Lower(store[1].title) = "ab" /\ store[1].status = STATUS_PENDING
    /\ Lower(store[2].title) # "ab" /\ store[2].status = STATUS_COMPLETED

---------------------------------------------------------------------------
\* the places of the pending rows with the title, letter case aside
PendingWithTitle(worksheet, title) ==
    { i \in 1..Len(worksheet) :
        /\ worksheet[i].status = STATUS_PENDING
        /\ Lower(worksheet[i].title) = Lower(title) }

TheOne(S) == CHOOSE x \in S : TRUE

(* C18: Complete with a title and no id looks at the pending rows whose    *)
(* title is the given one, letter case aside.  When no call of the store   *)
(* fails: with one such row, that row becomes completed and no other row   *)
(* changes; with none (a completed row of that title does not count), the  *)
(* not-found reply is sent and no row changes.  Whatever fails, a row that *)
(* is not such a row does not change.                                      *)
C18_CompleteByTitle ==
    [][(/\ last'.op = "complete"
        /\ ~Given(last'.args, "target_task_id")
        /\ Given(last'.args, "target_task_title"))
         => /\ Len(store') = Len(store)
            /\ \A i \in 1..Len(store) :
                  i \notin PendingWithTitle(store, Val(last'.args["target_task_title"]))
                      => store'[i] = store[i]
            /\ (/\ last'.fail = "none"
                /\ Cardinality(PendingWithTitle(store,
                                   Val(last'.args["target_task_title"]))) = 1)
                  => /\ store' = [store EXCEPT
                            ![TheOne(PendingWithTitle(store,
                                 Val(last'.args["target_task_title"])))].status
                                 = STATUS_COMPLETED]
                     /\ last'.replies[Len(last'.replies)].kind = "completed"
            /\ (/\ last'.fail = "none"
                /\ PendingWithTitle(store, Val(last'.args["target_task_title"])) = {})
                  => /\ store' = store
                     /\ last'.replies = <<Reply("title_not_found", <<>>)>>]_vars

\* row 2 was completed by its title while row 1, completed before under the
\* same title, was not counted
C18_Witness ==
    /\ last.op = "complete"
    /\ last.args = [target_task_title |-> Some("ab")]
    /\ last.replies = <<Reply("found_by_title", <<2>>), Reply("completed", <<2>>)>>
    /\ Len(store) = 2
    /\ Lower(store[1].title) = "ab" /\ store[1].status = STATUS_COMPLETED
    /\ Lower(store[2].title) = "ab" /\ store[2].status = STATUS_COMPLETED

---------------------------------------------------------------------------
(* Properties of listings under both filters (SpecList).                   *)

\* the id the assignee filter stands for: the sender for "me" and "my", the
\* mentioned user of that name, the text itself otherwise
WantedAssignee(text, message) ==
    IF Lower(text) \in {"me", "my", "my tasks"} THEN IntToStr(message.author)
    ELSE IF \E i \in 1..Len(message.mentions) : message.mentions[i].name = text
    THEN IntToStr((CHOOSE u \in Elems(message.mentions) : u.name = text).id)
    ELSE text

\* the days around a date on which a row of the model may be due
DaysAround(day) ==
    { AddDays(day, n) : n \in 0..14 } \cup { dt \in CalendarDays : AddDays(dt, 1) = day }

\* the date dt is in the range the filter names, seen from the date day
DateInFilter(dt, range, day) ==
    IF range = "today" THEN dt = day
    ELSE IF range = "next_seven_days" THEN \E n \in 0..6 : dt = AddDays(day, n)
    ELSE IF range = "this_week"
    THEN \E n \in 0..6 : \E k \in 0..6 :
            /\ Weekday(dt) = n /\ Weekday(day) = k
            /\ AddDays(dt, k) = AddDays(day, n)
    ELSE FormatDate(dt) = range

\* the row passes the filters the arguments name
PassesFilters(task, args, message, day) ==
    /\ task.status = STATUS_PENDING
    /\ Given(args, "assignee")
          => task.assignee_id = WantedAssignee(Val(args["assignee"]), message)
    /\ Given(args, "due_date_range")
          => \E dt \in DaysAround(day) :
                DueOn(task, dt) /\ DateInFilter(dt, Val(args["due_date_range"]), day)

Passing(worksheet, args, message, day) ==
    SelectSeq(worksheet, LAMBDA task : PassesFilters(task, args, message, day))

(* C19: a listing whose read does not fail names exactly the pending rows  *)
(* that pass the assignee filter and the date filter it was given, in row  *)
(* order, and so no completed row; under a date filter a row with no       *)
(* due_date or with one that is no date is left out and nothing is raised; *)
(* when no row passes, the reply is the no-tasks-found message.            *)
C19_ListResult ==
    (last.op = "list" /\ last.fail = "none")
    => /\ last.call = "none"
       /\ last.replies =
             IF Passing(store, last.args, last.message, today) = <<>>
             THEN <<Reply("none_found", <<>>)>>
             ELSE <<Reply("listing",
                          ids_found(Passing(store, last.args, last.message, today)))>>

\* a listing of the sender's tasks due today: row 1 is theirs, pending, with
\* a due_date that is no date; row 2 is theirs, pending and due today
C19_Witness ==
    /\ last.op = "list" /\ last.fail = "none"
    /\ last.args = [assignee |-> Some("Me"), due_date_range |-> Some("today")]
    /\ Len(store) = 2
    /\ store[1].status = STATUS_PENDING /\ store[1].assignee_id = "5"
    /\ store[1].due_date = "next monday"
    /\ store[2].status = STATUS_PENDING /\ store[2].assignee_id = "5"
    /\ DueOn(store[2], today)
    /\ last.replies = <<Reply("listing", <<2>>)>>

---------------------------------------------------------------------------
\* the calls for a message that mentions the bot with a command, made while
\* the handle was None
CommandsWithoutStore ==
    { k \in Arrived : /\ handlers[k].content # None
                      /\ Val(handlers[k].content) # ""
                      /\ handlers[k].handle = None }

Ended == { k \in Arrived : handlers[k].pc \in {"done", "failed"} }

(* C20: a command that mentions the bot while the store handle is None     *)
(* gets the one reply 'trouble connecting', with no call of the oracle and *)
(* none of the store; no step of a call of on_message changes the handle   *)
(* or, in such a call, the store; and once a call has ended, also by a     *)
(* failure, the next message is taken up.                                  *)
C20_NoStoreHandle ==
    /\ [](\A k \in CommandsWithoutStore :
             /\ handlers[k].replies = <<Reply("trouble_connecting", <<>>)>>
             /\ handlers[k].oracle_calls = 0
             /\ handlers[k].store_calls = 0
             /\ handlers[k].pc \in {"sending", "done", "failed"})
    /\ [](\A k \in 1..MaxMessages :
             (handlers[k] = Unsent /\ \A j \in 1..(k - 1) : j \in Ended)
                 => ENABLED OnMessage(k))
    /\ [][last'.op \in {"on_message", "oracle_returns", "reply_sent"}
            => /\ gs_worksheet' = gs_worksheet
               /\ last'.k \in CommandsWithoutStore => store' = store]_vars

\* the first message was a command met with no handle and its reply could
\* not be sent; the second, after on_ready got the handle, added a task
C20_Witness ==
    /\ 1 \in CommandsWithoutStore /\ handlers[1].pc = "failed"
    /\ 2 \in Appended

---------------------------------------------------------------------------
(* Properties of Add and Update with due texts the helper refuses          *)
(* (SpecDue).                                                              *)

\* the due text of a command that gave one, not empty, which the helper
\* refuses on the day now
RefusedDueText(args, key, now) ==
    /\ Given(args, key)
    /\ Val(args[key]) # ""
    /\ parse_relative_due_date(args[key], now) = None

\* the text kept for a refused text s
FallbackText(s) ==
    IF Len(s) = 10 /\ \A i \in 1..Len(s) : Ch(s, i) # ":"
    THEN s \o " 23:59"
    ELSE s

(* C21: an Add or an Update with a non-empty due text the helper refuses   *)
(* is carried out all the same, given a title (Add) or the id of a row     *)
(* (Update) and a store that answers: the due_date stored is the text      *)
(* followed by " 23:59" when the text has exactly ten characters and no    *)
(* colon, and the text itself otherwise, whatever the text is.             *)
C21_RefusedDueTextIsKept ==
    [][ /\ (/\ last'.op = "add"
            /\ last'.fail = "none"
            /\ RefusedDueText(last'.args, "due_date", today))
           => /\ Len(store') = Len(store) + 1
              /\ last'.replies = <<Reply("added", <<store'[Len(store')].task_id>>)>>
              /\ store'[Len(store')].due_date
                     = FallbackText(Val(last'.args["due_date"]))
        /\ (/\ last'.op = "update"
            /\ last'.fail = "none"
            /\ TargetId(last'.args) \in IdsOf(store)
            /\ RefusedDueText(last'.args, "new_due_date", today))
           => /\ last'.replies = <<Reply("updated", <<TargetId(last'.args)>>)>>
              /\ \E i \in 1..Len(store') :
                    /\ store'[i].task_id = TargetId(last'.args)
                    /\ store'[i].due_date
                           = FallbackText(Val(last'.args["new_due_date"]))
      ]_vars

\* a row added with a refused date of ten characters, which was given the
\* end of the day, has then been given a refused text with a colon as it is
C21_Witness ==
    /\ last.op = "update"
    /\ last.fail = "none"
    /\ Get(last.args, "new_due_date") = Some("2024-12-31 25:00")
    /\ Len(store) = 2
    /\ store[1].due_date = "2024-12-31 25:00"
    /\ store[2].due_date = "2024-13-01 23:59"

---------------------------------------------------------------------------
(* Properties of the runs that send nothing (SpecRemind).                  *)

\* the messages the last run handed to channel.send
RunMessages == last.digest \o last.error

(* C22, as amended: a reminder run sends no message when the store handle  *)
(* is None or the client does not know the channel; a run whose read of    *)
(* the store answers sends no message when no pending task is due today,   *)
(* tomorrow or on one of the five days after, and no run sends a digest    *)
(* then; a run whose read raises sends the error message whatever the      *)
(* store holds; no run changes the store.                                  *)
C22_SilentRuns ==
    /\ [](last.op = "reminder_run"
            => /\ (last.handle = None \/ last.channel = None)
                     => RunMessages = <<>>
               /\ PendingDueInWeek(store, today) = <<>>
                     => /\ last.digest = <<>>
                        /\ last.fail # "read" => RunMessages = <<>>
               /\ (last.handle # None /\ last.channel # None /\ last.fail = "read")
                     => Len(RunMessages) = 1)
    /\ [][last'.op = "reminder_run" => store' = store]_vars

\* a run with a channel and no store handle has sent nothing, with a
\* pending task due today in the store
C22_Witness ==
    /\ last.op = "reminder_run"
    /\ last.handle = None
    /\ last.channel # None
    /\ \E i \in 1..Len(store) :
          store[i].status = STATUS_PENDING /\ DueOn(store[i], today)
    /\ RunMessages = <<>>

\* C22 as stated: a run sends no message at all when the handle is None,
\* when there is no channel, or when no pending task is due in the week
C22_AsStated ==
    (/\ last.op = "reminder_run"
     /\ \/ last.handle = None
        \/ last.channel = None
        \/ PendingDueInWeek(store, today) = <<>>)
    => RunMessages = <<>>

---------------------------------------------------------------------------
(* Properties of Add and Update with an assignee (SpecAssignee).           *)

\* the assignee_id of the last row with the id the last command named
AssigneeOf(worksheet, task_id) ==
    worksheet[SetMax({ i \in 1..Len(worksheet) : worksheet[i].task_id = task_id })]
        .assignee_id

(* C23: an Update with a non-empty new_assignee that rewrote a row stored  *)
(* the assignee Add stores for the same text and the same mentioned        *)
(* users: the id of the first mentioned user whose mention, name, <@id>    *)
(* or <@!id> the text equals, and the text itself when there is none.      *)
C23_UpdateResolvesAsAdd ==
    (/\ last.op = "update"
     /\ last.call = "true"
     /\ Truthy(Get(last.args, "new_assignee")))
    => AssigneeOf(store, TargetId(last.args))
          = Val(AddAssignee(Get(last.args, "new_assignee"), last.message.mentions))

---------------------------------------------------------------------------
(* Properties of Complete by id, once and once more (SpecTwice).           *)

\* the worksheet with the status of the rows of one id set to completed
WithCompleted(worksheet, task_id) ==
    [i \in 1..Len(worksheet) |->
        IF worksheet[i].task_id = task_id
        THEN [worksheet[i] EXCEPT !.status = STATUS_COMPLETED]
        ELSE worksheet[i]]

\* the last command was a Complete by the id of a row, with a store that
\* answered
CompletedById ==
    /\ last.op \in {"complete", "complete_again"}
    /\ last.fail = "none"
    /\ TargetId(last.args) \in IdsOf(last.before)

---------------------------------------------------------------------------
(* Properties of the text of a listing (SpecListText).                     *)

(* C26: the text a listing sends has at most MessageLimit characters,      *)
(* whatever the pending tasks, their titles and their assignees are; in    *)
(* particular the text cut to the first ListLinesKept lines, with its      *)
(* marker, has.                                                            *)
C26_ListingWithinLimit ==
    last.op = "list" => Len(last.text) <= MessageLimit

---------------------------------------------------------------------------
(* Properties of the messages handled one after the other (SpecDispatch).  *)

\* after is before, or before with one row appended, or before with one
\* row written anew
OneStoreCall(before, after) ==
    \/ after = before
    \/ /\ Len(after) = Len(before) + 1
       /\ SubSeq(after, 1, Len(before)) = before
    \/ /\ Len(after) = Len(before)
       /\ Cardinality({ i \in 1..Len(before) : after[i] # before[i] }) = 1

\* the replies that report a store call that raised, and those that report
\* a command carried out
FailureReplies ==
    {"add_error", "update_error", "complete_error", "lookup_error", "list_error"}

SuccessReplies == {"added", "updated", "completed"}

RepliesOf(replies, kinds) ==
    { i \in 1..Len(replies) : replies[i].kind \in kinds }

(* C24: the handling of one message changes the store by at most one       *)
(* call, an append, a row written anew or a status set, and not at all     *)
(* unless that call answered with success; a store call that raised is     *)
(* reported by one reply, the last of the message, no call is made after   *)
(* it and the store is as it was.                                          *)
C24_OneStoreCall ==
    [][ last'.op = "message"
        => /\ OneStoreCall(store, store')
           /\ store' # store => last'.call = "true"
           /\ Cardinality(RepliesOf(last'.replies, FailureReplies)) <= 1
           /\ Cardinality(RepliesOf(last'.replies, SuccessReplies)) <= 1
           /\ (last'.fail = "write" /\ last'.call # "none")
                 => last'.call = "raised"
           /\ RepliesOf(last'.replies, FailureReplies) # {}
                 => /\ store' = store
                    /\ last'.call \in {"none", "raised"}
                    /\ last'.fail # "none"
                    /\ RepliesOf(last'.replies, FailureReplies)
                          = {Len(last'.replies)}
                    /\ RepliesOf(last'.replies, SuccessReplies) = {}
      ]_vars

\* a Complete by title found its one pending row, the status write raised,
\* the failure was reported and the row is still pending
C24_Witness ==
    /\ last.op = "message"
    /\ last.function_name = Some("complete_task")
    /\ last.fail = "write"
    /\ last.call = "raised"
    /\ last.replies = <<Reply("found_by_title", <<1>>), Reply("complete_error", <<>>)>>
    /\ Len(store) >= 1
    /\ store[1].status = STATUS_PENDING

=============================================================================
